---------------------------- MODULE Spec2Model ----------------------------
(***************************************************************************)
(* A model of the monkey interpreter: the Pratt parser (package parser),   *)
(* the environment and the runtime objects (package object), the           *)
(* built-ins and the tree-walking evaluator (package evaluator).           *)
(*                                                                         *)
(* The parser consumes a token sequence (the lexer's output, EOF repeated  *)
(* for ever) and produces a Program and an error list.  The evaluator is   *)
(* a recursive function over the tree; it is modelled by recursive         *)
(* operators that thread the heap (environments, backing arrays of         *)
(* slices, the allocation counter) through every call.                     *)
(*                                                                         *)
(* Go values that are compared by pointer (Error, ReturnValue, Function,   *)
(* Array, Hash) carry the identity of their allocation in the field id.    *)
(* A Go run-time panic (nil dereference, failed type assertion, index out  *)
(* of range, division by zero, stack exhaustion) aborts evaluation: it is  *)
(* the field abort of an evaluation result.                                *)
(***************************************************************************)
EXTENDS Integers, Sequences, FiniteSets, TLC

VARIABLES
    input,      \* the token sequence handed to the parser (<<>>: a tree given directly)
    program,    \* the *ast.Program: produced by ParseProgram, or given
    errors,     \* Parser.errors
    heap,       \* the environments, backing arrays and allocation counter
    result,     \* the outcome of Eval(program, env): [v, h, abort]
    pc          \* "source" -> "parsed" -> "evaluated"

vars == <<input, program, errors, heap, result, pc>>

----------------------------------------------------------------------------
(* Bounds of the model *)

\* width of the model's machine integer (int64 in the source, scaled down)
IntBits == 16
\* width to which the String hash is truncated (64 in the source)
HashBits == 16
\* deepest nesting of Eval calls before the stack is taken to be exhausted
MaxDepth == 24
\* deepest nesting of if-blocks in the generated return programs
MaxNest == 3
\* most pairs of a generated hash literal
MaxPairs == 3
\* most tokens of a generated token sequence
MaxTokens == 2
\* most elements of a generated array literal
MaxElems == 4
\* most parameters of a generated function
MaxParams == 2
\* most calls, one in the other, of a generated recursion that ends
MaxCalls == 2

TwoTo(n) == 2 ^ n
MaxInt == TwoTo(IntBits - 1) - 1
MinInt == 0 - TwoTo(IntBits - 1)

\* two's complement wrap-around of int64 arithmetic
Wrap(n) == ((n + TwoTo(IntBits - 1)) % TwoTo(IntBits)) - TwoTo(IntBits - 1)

\* a * b modulo 2^IntBits, by doubling (no intermediate exceeds 2^(IntBits+1))
RECURSIVE MulMod(_, _)
MulMod(a, b) ==
    IF b = 0 THEN 0
    ELSE LET half == MulMod(a, b \div 2)
         IN  ((2 * half) + (IF b % 2 = 1 THEN a ELSE 0)) % TwoTo(IntBits)

\* the wrapped product of two int64
Mul(a, b) == Wrap(MulMod(a % TwoTo(IntBits), b % TwoTo(IntBits)))

\* Go's integer division truncates toward zero
Quot(a, b) ==
    LET abs(n) == IF n < 0 THEN 0 - n ELSE n
    IN  IF (a < 0) = (b < 0) THEN abs(a) \div abs(b) ELSE 0 - (abs(a) \div abs(b))

----------------------------------------------------------------------------
(* package ast: the nodes, as records tagged by kind *)

NilNode == [kind |-> "nil"]
\* a nil *ast.LetStatement stored in a Statement interface (a typed nil)
NilLetStatement == [kind |-> "LetStatement", ptr |-> "nil"]
\* a nil *ast.BlockStatement (IfExpression.Alternative when there is no else)
NilBlock == [kind |-> "BlockStatement", ptr |-> "nil"]

Program(stmts) == [kind |-> "Program", Statements |-> stmts]
LetStatement(name, value) ==
    [kind |-> "LetStatement", ptr |-> "ok", Name |-> name, Value |-> value]
ReturnStatement(value) == [kind |-> "ReturnStatement", ReturnValue |-> value]
ExpressionStatement(e) == [kind |-> "ExpressionStatement", Expression |-> e]
BlockStatement(stmts) == [kind |-> "BlockStatement", ptr |-> "ok", Statements |-> stmts]
Identifier(name) == [kind |-> "Identifier", Value |-> name]
\* Lit is Token.Literal, which String() prints
IntegerLiteral(lit, n) == [kind |-> "IntegerLiteral", Lit |-> lit, Int |-> n]
BooleanExpression(b) == [kind |-> "BooleanExpression", Bool |-> b]
StringLiteral(s) == [kind |-> "StringLiteral", Str |-> s]
PrefixExpression(op, right) ==
    [kind |-> "PrefixExpression", Operator |-> op, Right |-> right]
InfixExpression(left, op, right) ==
    [kind |-> "InfixExpression", Operator |-> op, Left |-> left, Right |-> right]
IfExpression(cond, cons, alt) ==
    [kind |-> "IfExpression", Condition |-> cond, Consequence |-> cons,
     Alternative |-> alt]
FunctionLiteral(params, body) ==
    [kind |-> "FunctionLiteral", Parameters |-> params, Body |-> body]
CallExpression(fn, args) ==
    [kind |-> "CallExpression", Function |-> fn, Arguments |-> args]
ArrayLiteral(elems) == [kind |-> "ArrayLiteral", Elements |-> elems]
IndexExpression(left, index) ==
    [kind |-> "IndexExpression", Left |-> left, Index |-> index]
\* Pairs is a Go map from key node to value node: a sequence of <<key, value>>
\* whose order carries no meaning
HashLiteral(pairs) == [kind |-> "HashLiteral", Pairs |-> pairs]

----------------------------------------------------------------------------
(* package object: the runtime values, as records tagged by type *)

INTEGER_OBJ == "INTEGER"
BOOLEAN_OBJ == "BOOLEAN"
NULL_OBJ == "NULL"
RETURN_VALUE_OBJ == "RETURN_VALUE"
ERROR_OBJ == "ERROR"
FUNCTION_OBJ == "FUNCTION"
STRING_OBJ == "STRING"
BUILTIN_OBJ == "BUILTIN"
ARRAY_OBJ == "ARRAY"
HASH_OBJ == "HASH"

\* the nil Object interface
NilObj == [type |-> "nil"]

Integer(n) == [type |-> INTEGER_OBJ, int |-> n]
\* strings are their bytes
String(s) == [type |-> STRING_OBJ, str |-> s]
TrueObj == [type |-> BOOLEAN_OBJ, bool |-> TRUE]
FalseObj == [type |-> BOOLEAN_OBJ, bool |-> FALSE]
NULL == [type |-> NULL_OBJ]
Builtin(name) == [type |-> BUILTIN_OBJ, Fn |-> name]

\* Type() of an object; calling it on the nil interface panics (see Panics)
Type(obj) == obj.type

\* the heap before anything is allocated: no environment, no backing array.
\* mapOrder is the order in which the runtime's map iteration visits the
\* entries of a map (Go leaves it unspecified): a permutation of 1..MaxPairs
\* ranged counts the map iterations done so far
NewHeap(ord) ==
    [envs |-> <<>>, arrs |-> <<>>, nid |-> 0, mapOrder |-> ord, ranged |-> 0]

\* an evaluation result: the value, the heap after it, and the panic if any
Ret(v, h) == [v |-> v, h |-> h, abort |-> ""]
Panic(why, h) == [v |-> NilObj, h |-> h, abort |-> why]
Aborted(r) == r.abort # ""

\* &object.X{...}: a fresh allocation, known by its id
Alloc(h) == [h EXCEPT !.nid = h.nid + 1]

----------------------------------------------------------------------------
(* package object: Environment *)

\* the environment most recently allocated
LastEnv(h) == Len(h.envs)

NewEnvironment(h) ==
    [h EXCEPT !.envs = Append(@, [store |-> <<>>, outer |-> 0])]

\* a new environment that encloses nothing
NewEnclosedEnvironmentWithoutOuter(outer, h) ==
    [h EXCEPT !.envs = Append(@, [store |-> <<>>, outer |-> 0])]

\* a new environment that encloses the one allocated last, the caller's
NewEnclosedEnvironmentOfCaller(outer, h) ==
    [h EXCEPT !.envs = Append(@, [store |-> <<>>, outer |-> LastEnv(h)])]

NewEnclosedEnvironment(outer, h) ==
    [h EXCEPT !.envs = Append(@, [store |-> <<>>, outer |-> outer])]

RECURSIVE Get(_, _, _)
Get(h, e, key) ==
    LET env == h.envs[e]
    IN  IF key \in DOMAIN env.store
        THEN [val |-> env.store[key], ok |-> TRUE]
        ELSE IF env.outer # 0
             THEN Get(h, env.outer, key)
             ELSE [val |-> NilObj, ok |-> FALSE]

\* a Set that writes into the nearest enclosing scope that binds the key
RECURSIVE SetWhereBound(_, _, _, _)
SetWhereBound(h, e, key, val) ==
    IF /\ key \notin DOMAIN h.envs[e].store
       /\ h.envs[e].outer # 0
       /\ Get(h, h.envs[e].outer, key).ok
    THEN SetWhereBound(h, h.envs[e].outer, key, val)
    ELSE [h EXCEPT !.envs[e].store =
             [k \in (DOMAIN @) \cup {key} |-> IF k = key THEN val ELSE @[k]]]

Set(h, e, key, val) ==
    [h EXCEPT !.envs[e].store =
        [k \in (DOMAIN @) \cup {key} |-> IF k = key THEN val ELSE @[k]]]

----------------------------------------------------------------------------
(* Go slices of objects: a pointer into a backing array, a length, a capacity *)

EmptySlice == [arr |-> 0, off |-> 0, len |-> 0, cap |-> 0]

\* s[i], i counted from 0
SliceAt(h, s, i) == h.arrs[s.arr][s.off + i + 1]

\* the capacity append gives a slice that is full (small slices double)
GrowCap(cap) == IF cap = 0 THEN 1 ELSE 2 * cap

\* append(s, v): in place when the capacity allows, else into a new array
AppendSlice(h, s, v) ==
    IF s.len < s.cap
    THEN [s |-> [s EXCEPT !.len = s.len + 1],
          h |-> [h EXCEPT !.arrs[s.arr][s.off + s.len + 1] = v]]
    ELSE LET newcap == GrowCap(s.cap)
             back == [i \in 1..newcap |->
                        IF i <= s.len THEN SliceAt(h, s, i - 1)
                        ELSE IF i = s.len + 1 THEN v ELSE NilObj]
         IN  [s |-> [arr |-> Len(h.arrs) + 1, off |-> 0, len |-> s.len + 1,
                     cap |-> newcap],
              h |-> [h EXCEPT !.arrs = Append(@, back)]]

\* s[1:]
SliceFrom1(s) == [s EXCEPT !.off = s.off + 1, !.len = s.len - 1, !.cap = s.cap - 1]

----------------------------------------------------------------------------
(* package object: HashKey *)

\* the 64-bit FNV-1a parameters of hash/fnv, to the bits the model keeps
FnvOffsetLow == 2237221
FnvPrime == 435

RECURSIVE Xor(_, _)
Xor(a, b) ==
    IF a = 0 THEN b
    ELSE IF b = 0 THEN a
    ELSE (((a % 2) + (b % 2)) % 2) + (2 * Xor(a \div 2, b \div 2))

RECURSIVE Fnv1a(_, _, _)
Fnv1a(bytes, i, hsh) ==
    IF i > Len(bytes) THEN hsh
    ELSE Fnv1a(bytes, i + 1, (Xor(hsh, bytes[i]) * FnvPrime) % TwoTo(HashBits))

Hashable(obj) == obj.type \in {INTEGER_OBJ, BOOLEAN_OBJ, STRING_OBJ}

IntegerHashKey(obj) == [Type |-> INTEGER_OBJ, Value |-> obj.int % TwoTo(IntBits)]

BooleanHashKey(obj) == [Type |-> BOOLEAN_OBJ, Value |-> IF obj.bool THEN 1 ELSE 0]

StringHashKey(obj) ==
    [Type |-> STRING_OBJ, Value |-> Fnv1a(obj.str, 1, FnvOffsetLow % TwoTo(HashBits))]

HashKey(obj) ==
    CASE obj.type = INTEGER_OBJ -> IntegerHashKey(obj)
      [] obj.type = BOOLEAN_OBJ -> BooleanHashKey(obj)
      [] obj.type = STRING_OBJ -> StringHashKey(obj)

----------------------------------------------------------------------------
(* package evaluator: objects the evaluator allocates *)

isError(obj) == obj.type = ERROR_OBJ

\* &object.Error{Message: msg}
newError(msg, h) ==
    LET h2 == Alloc(h)
    IN  Ret([type |-> ERROR_OBJ, id |-> h2.nid, Message |-> msg], h2)

\* &object.ReturnValue{Value: val}
NewReturnValue(val, h) ==
    LET h2 == Alloc(h)
    IN  Ret([type |-> RETURN_VALUE_OBJ, id |-> h2.nid, val |-> val], h2)

\* &object.Array{Elements: s}
NewArray(s, h) ==
    LET h2 == Alloc(h)
    IN  Ret([type |-> ARRAY_OBJ, id |-> h2.nid, Elements |-> s], h2)

\* &object.Hash{Pairs: pairs}
NewHash(pairs, h) ==
    LET h2 == Alloc(h)
    IN  Ret([type |-> HASH_OBJ, id |-> h2.nid, Pairs |-> pairs], h2)

\* &object.Function{Parameters, Body, Env}
NewFunction(params, body, env, h) ==
    LET h2 == Alloc(h)
    IN  Ret([type |-> FUNCTION_OBJ, id |-> h2.nid, Parameters |-> params,
             Body |-> body, Env |-> env], h2)

nativeBoolToBooleanObject(b) == IF b THEN TrueObj ELSE FalseObj

\* a method call through a nil interface, or a field of a nil pointer
NilDeref(h) == Panic("invalid memory address or nil pointer dereference", h)

----------------------------------------------------------------------------
(* package evaluator: builtins.go *)

WrongNumberOfArguments(got, want, h) ==
    newError("wrong number of arguments. got=" \o ToString(got) \o ", want="
             \o want \o ")", h)

\* "argument to `<name>` not supported, got ": the back quote of the source
\* is written ' here (the back quote cannot stand in a string of this language)
NotSupported(name) == "argument to '" \o name \o "' not supported, got "

length(args, h) ==
    IF args.len # 1 THEN WrongNumberOfArguments(args.len, "1", h)
    ELSE LET arg == SliceAt(h, args, 0)
         IN  CASE arg.type = STRING_OBJ -> Ret(Integer(Len(arg.str)), h)
               [] arg.type = ARRAY_OBJ -> Ret(Integer(arg.Elements.len), h)
               [] arg = NilObj -> NilDeref(h)
               [] OTHER ->
                    newError(NotSupported("len") \o Type(arg), h)

head(args, h) ==
    IF args.len # 1 THEN WrongNumberOfArguments(args.len, "1", h)
    ELSE LET arg == SliceAt(h, args, 0)
         IN  CASE arg.type = ARRAY_OBJ ->
                    IF arg.Elements.len = 0 THEN Ret(NULL, h)
                    ELSE Ret(SliceAt(h, arg.Elements, 0), h)
               [] arg = NilObj -> NilDeref(h)
               [] OTHER ->
                    newError(NotSupported("len") \o Type(arg), h)

tail(args, h) ==
    IF args.len # 1 THEN WrongNumberOfArguments(args.len, "1", h)
    ELSE LET arg == SliceAt(h, args, 0)
         IN  CASE arg.type = ARRAY_OBJ ->
                    IF arg.Elements.len < 2 THEN NewArray(EmptySlice, h)
                    ELSE NewArray(SliceFrom1(arg.Elements), h)
               [] arg = NilObj -> NilDeref(h)
               [] OTHER ->
                    newError(NotSupported("len") \o Type(arg), h)

last(args, h) ==
    IF args.len # 1 THEN WrongNumberOfArguments(args.len, "1", h)
    ELSE LET arg == SliceAt(h, args, 0)
         IN  CASE arg.type = ARRAY_OBJ ->
                    IF arg.Elements.len = 0 THEN Ret(NULL, h)
                    ELSE Ret(SliceAt(h, arg.Elements, arg.Elements.len - 1), h)
               [] arg = NilObj -> NilDeref(h)
               [] OTHER ->
                    newError(NotSupported("len") \o Type(arg), h)

push(args, h) ==
    IF args.len # 2 THEN WrongNumberOfArguments(args.len, "2", h)
    ELSE LET arr == SliceAt(h, args, 0)
         IN  CASE arr.type = ARRAY_OBJ ->
                    LET a == AppendSlice(h, arr.Elements, SliceAt(h, args, 1))
                    IN  NewArray(a.s, a.h)
               [] arr = NilObj -> NilDeref(h)
               [] OTHER ->
                    newError(NotSupported("push") \o Type(arr), h)

\* the keys of the builtins table
builtins == {"len", "head", "tail", "last", "push"}

\* function.Fn(args...) of a *object.Builtin
CallBuiltin(name, args, h) ==
    CASE name = "len" -> length(args, h)
      [] name = "head" -> head(args, h)
      [] name = "tail" -> tail(args, h)
      [] name = "last" -> last(args, h)
      [] name = "push" -> push(args, h)

----------------------------------------------------------------------------
(* package evaluator: the operators *)

\* left == right on two objects of the same type: the interface comparison
\* compares pointers; TRUE, FALSE and NULL are single objects, a builtin is
\* the one object of its table entry
SameObject(left, right) ==
    CASE left.type = BOOLEAN_OBJ -> left.bool = right.bool
      [] left.type = NULL_OBJ -> TRUE
      [] left.type = BUILTIN_OBJ -> left.Fn = right.Fn
      [] OTHER -> left.id = right.id

\* integer operators whose == holds for a smaller left operand too
evalInfixIntegerExpressionLoose(op, left, right, h) ==
    LET leftVal == left.int
        rightVal == right.int
    IN  CASE op = "+" -> Ret(Integer(Wrap(leftVal + rightVal)), h)
          [] op = "-" -> Ret(Integer(Wrap(leftVal - rightVal)), h)
          [] op = "*" -> Ret(Integer(Mul(leftVal, rightVal)), h)
          [] op = "/" ->
                IF rightVal = 0 THEN Panic("integer divide by zero", h)
                ELSE Ret(Integer(Wrap(Quot(leftVal, rightVal))), h)
          [] op = "==" -> Ret(nativeBoolToBooleanObject(leftVal <= rightVal), h)
          [] op = "!=" -> Ret(nativeBoolToBooleanObject(leftVal # rightVal), h)
          [] op = ">" -> Ret(nativeBoolToBooleanObject(leftVal > rightVal), h)
          [] op = "<" -> Ret(nativeBoolToBooleanObject(leftVal < rightVal), h)
          [] OTHER ->
                newError("unknown operator: " \o Type(left) \o " " \o op \o " "
                         \o Type(right), h)

evalInfixIntegerExpression(op, left, right, h) ==
    LET leftVal == left.int
        rightVal == right.int
    IN  CASE op = "+" -> Ret(Integer(Wrap(leftVal + rightVal)), h)
          [] op = "-" -> Ret(Integer(Wrap(leftVal - rightVal)), h)
          [] op = "*" -> Ret(Integer(Mul(leftVal, rightVal)), h)
          [] op = "/" ->
                IF rightVal = 0 THEN Panic("integer divide by zero", h)
                ELSE Ret(Integer(Wrap(Quot(leftVal, rightVal))), h)
          [] op = "==" -> Ret(nativeBoolToBooleanObject(leftVal = rightVal), h)
          [] op = "!=" -> Ret(nativeBoolToBooleanObject(leftVal # rightVal), h)
          [] op = ">" -> Ret(nativeBoolToBooleanObject(leftVal > rightVal), h)
          [] op = "<" -> Ret(nativeBoolToBooleanObject(leftVal < rightVal), h)
          [] OTHER ->
                newError("unknown operator: " \o Type(left) \o " " \o op \o " "
                         \o Type(right), h)

evalInfixStringExpression(op, left, right, h) ==
    IF op = "+" THEN Ret(String(left.str \o right.str), h)
    ELSE newError("unknown operator: " \o Type(left) \o " " \o op \o " "
                  \o Type(right), h)

\* infix operators whose == and != come before the comparison of the types
evalInfixExpressionEqualsFirst(op, left, right, h) ==
    CASE left = NilObj \/ right = NilObj -> NilDeref(h)
      [] Type(left) = INTEGER_OBJ /\ Type(right) = INTEGER_OBJ ->
            evalInfixIntegerExpression(op, left, right, h)
      [] Type(left) = STRING_OBJ /\ Type(right) = STRING_OBJ ->
            evalInfixStringExpression(op, left, right, h)
      [] op = "==" ->
            Ret(nativeBoolToBooleanObject(Type(left) = Type(right)
                                          /\ SameObject(left, right)), h)
      [] op = "!=" ->
            Ret(nativeBoolToBooleanObject(~(Type(left) = Type(right)
                                            /\ SameObject(left, right))), h)
      [] Type(left) # Type(right) ->
            newError("type mismatch: " \o Type(left) \o " " \o op \o " "
                     \o Type(right), h)
      [] OTHER ->
            newError("unknown operator: " \o Type(left) \o " " \o op \o " "
                     \o Type(right), h)

evalInfixExpression(op, left, right, h) ==
    CASE left = NilObj \/ right = NilObj -> NilDeref(h)
      [] Type(left) # Type(right) ->
            newError("type mismatch: " \o Type(left) \o " " \o op \o " "
                     \o Type(right), h)
      [] Type(left) = INTEGER_OBJ /\ Type(right) = INTEGER_OBJ ->
            evalInfixIntegerExpression(op, left, right, h)
      [] Type(left) = STRING_OBJ /\ Type(right) = STRING_OBJ ->
            evalInfixStringExpression(op, left, right, h)
      [] op = "==" -> Ret(nativeBoolToBooleanObject(SameObject(left, right)), h)
      [] op = "!=" -> Ret(nativeBoolToBooleanObject(~SameObject(left, right)), h)
      [] OTHER ->
            newError("unknown operator: " \o Type(left) \o " " \o op \o " "
                     \o Type(right), h)

evalMinusPrefixOperatorExpression(right, h) ==
    IF right = NilObj THEN NilDeref(h)
    ELSE IF Type(right) # INTEGER_OBJ
         THEN newError("unknown operator: -" \o Type(right), h)
         ELSE Ret(Integer(Wrap(0 - right.int)), h)

evalBangPrefixOperatorExpression(right) ==
    CASE right = TrueObj -> FalseObj
      [] right = FalseObj -> TrueObj
      [] right = NULL -> TrueObj
      [] OTHER -> FalseObj

evalPrefixExpression(op, right, h) ==
    CASE op = "!" -> Ret(evalBangPrefixOperatorExpression(right), h)
      [] op = "-" -> evalMinusPrefixOperatorExpression(right, h)
      [] OTHER ->
            IF right = NilObj THEN NilDeref(h)
            ELSE newError("unknown operator: " \o op \o " " \o Type(right), h)

\* a truthiness that takes the Integer 0 for false as well
isTruthyButZero(obj) == ~(obj = FalseObj \/ obj = NULL \/ obj = Integer(0))

isTruthy(obj) == ~(obj = FalseObj \/ obj = NULL)

unwrapReturnValue(obj) ==
    IF obj.type = RETURN_VALUE_OBJ THEN obj.val ELSE obj

\* an index operator whose negative indices count from the end of the Array
evalIndexExpressionFromEnd(left, index, h) ==
    CASE left.type = ARRAY_OBJ ->
            IF index.type # INTEGER_OBJ
            THEN Panic("interface conversion: object.Object is not *object.Integer", h)
            ELSE LET len == left.Elements.len
                     idx == IF index.int < 0 THEN index.int + len ELSE index.int
                 IN  IF idx < 0 \/ idx > len - 1 THEN Ret(NULL, h)
                     ELSE Ret(SliceAt(h, left.Elements, idx), h)
      [] left.type = HASH_OBJ ->
            IF ~Hashable(index)
            THEN IF index = NilObj THEN NilDeref(h)
                 ELSE newError("unusable as hash key: " \o Type(index), h)
            ELSE IF HashKey(index) \notin DOMAIN left.Pairs THEN Ret(NULL, h)
                 ELSE Ret(left.Pairs[HashKey(index)].Value, h)
      [] OTHER -> Ret(NULL, h)

evalIndexExpression(left, index, h) ==
    CASE left.type = ARRAY_OBJ ->
            IF index.type # INTEGER_OBJ
            THEN Panic("interface conversion: object.Object is not *object.Integer", h)
            ELSE LET idx == index.int
                     max == left.Elements.len - 1
                 IN  IF idx < 0 \/ idx > max THEN Ret(NULL, h)
                     ELSE Ret(SliceAt(h, left.Elements, idx), h)
      [] left.type = HASH_OBJ ->
            IF ~Hashable(index)
            THEN IF index = NilObj THEN NilDeref(h)
                 ELSE newError("unusable as hash key: " \o Type(index), h)
            ELSE IF HashKey(index) \notin DOMAIN left.Pairs THEN Ret(NULL, h)
                 ELSE Ret(left.Pairs[HashKey(index)].Value, h)
      [] OTHER -> Ret(NULL, h)

evalIdentifier(node, env, h) ==
    LET got == Get(h, env, node.Value)
    IN  IF node.Value \in builtins THEN Ret(Builtin(node.Value), h)
        ELSE IF ~got.ok THEN newError("identifier not found: " \o node.Value, h)
        ELSE Ret(got.val, h)

\* the entries of a map of n entries, in the order this run's iteration
\* visits them
MapIteration(n, h) == SelectSeq(h.mapOrder, LAMBDA i : i <= n)

\* pairs[hashKey] = pair
PutPair(pairs, hashKey, pair) ==
    [k \in (DOMAIN pairs) \cup {hashKey} |-> IF k = hashKey THEN pair ELSE pairs[k]]

\* the loop of applyFunction that binds the arguments to the parameters
RECURSIVE BindArguments(_, _, _, _, _)
BindArguments(params, args, i, callEnv, h) ==
    IF i >= args.len THEN Ret(NilObj, h)
    ELSE IF i >= Len(params) THEN Panic("index out of range", h)
    ELSE BindArguments(params, args, i + 1, callEnv,
                       Set(h, callEnv, params[i + 1].Value, SliceAt(h, args, i)))

RECURSIVE Eval(_, _, _, _)
RECURSIVE evalProgram(_, _, _, _, _, _)
RECURSIVE evalBlockStatement(_, _, _, _, _, _)
RECURSIVE evalExpressions(_, _, _, _, _, _)
RECURSIVE evalHashLiteral(_, _, _, _, _, _, _)
RECURSIVE evalIfExpression(_, _, _, _)
RECURSIVE applyFunction(_, _, _, _)

\* a loop over the statements of a Program that goes on after an Error
evalProgramPastErrors(statements, i, res, env, h, d) ==
    IF i > Len(statements) THEN Ret(res, h)
    ELSE LET r == Eval(statements[i], env, h, d + 1)
         IN  IF Aborted(r) THEN r
             ELSE IF r.v.type = RETURN_VALUE_OBJ THEN Ret(r.v.val, r.h)
             ELSE evalProgram(statements, i + 1, r.v, env, r.h, d)

\* the loop over the statements of a Program, from statement i
evalProgram(statements, i, res, env, h, d) ==
    IF i > Len(statements) THEN Ret(res, h)
    ELSE LET r == Eval(statements[i], env, h, d + 1)
         IN  IF Aborted(r) THEN r
             ELSE IF r.v.type = RETURN_VALUE_OBJ THEN Ret(r.v.val, r.h)
             ELSE IF r.v.type = ERROR_OBJ THEN r
             ELSE evalProgram(statements, i + 1, r.v, env, r.h, d)

\* a block that hands on the value a ReturnValue wraps
evalBlockStatementUnwrapping(block, i, res, env, h, d) ==
    IF block.ptr = "nil" THEN NilDeref(h)
    ELSE IF i > Len(block.Statements) THEN Ret(res, h)
    ELSE LET r == Eval(block.Statements[i], env, h, d + 1)
         IN  IF Aborted(r) THEN r
             ELSE IF r.v.type = RETURN_VALUE_OBJ THEN Ret(r.v.val, r.h)
             ELSE IF r.v.type = ERROR_OBJ THEN r
             ELSE evalBlockStatement(block, i + 1, r.v, env, r.h, d)

\* the loop over the statements of a block, from statement i
evalBlockStatement(block, i, res, env, h, d) ==
    IF block.ptr = "nil" THEN NilDeref(h)
    ELSE IF i > Len(block.Statements) THEN Ret(res, h)
    ELSE LET r == Eval(block.Statements[i], env, h, d + 1)
         IN  IF Aborted(r) THEN r
             ELSE IF r.v.type = RETURN_VALUE_OBJ THEN r
             ELSE IF r.v.type = ERROR_OBJ THEN r
             ELSE evalBlockStatement(block, i + 1, r.v, env, r.h, d)

\* the loop over nodes, from node i; objects is the slice built so far
evalExpressions(nodes, i, objects, env, h, d) ==
    IF i > Len(nodes) THEN Ret(objects, h)
    ELSE LET r == Eval(nodes[i], env, h, d + 1)
         IN  IF Aborted(r) THEN r
             ELSE IF isError(r.v)
                  THEN LET one == AppendSlice(r.h, EmptySlice, r.v)
                       IN  Ret(one.s, one.h)
                  ELSE LET app == AppendSlice(r.h, objects, r.v)
                       IN  evalExpressions(nodes, i + 1, app.s, env, app.h, d)

\* the loop over node.Pairs: its is the iteration order, i the position in it
evalHashLiteral(node, its, i, pairs, env, h, d) ==
    IF i > Len(its) THEN NewHash(pairs, h)
    ELSE LET key == node.Pairs[its[i]][1]
             value == node.Pairs[its[i]][2]
             k == Eval(key, env, h, d + 1)
         IN  IF Aborted(k) THEN k
             ELSE IF isError(k.v) THEN k
             ELSE IF k.v = NilObj THEN NilDeref(k.h)
             ELSE IF ~Hashable(k.v)
                  THEN newError("Can't use expression of type " \o Type(k.v)
                                \o " as hash key", k.h)
             ELSE LET v == Eval(value, env, k.h, d + 1)
                  IN  IF Aborted(v) THEN v
                      ELSE IF isError(v.v) THEN v
                      ELSE evalHashLiteral(node, its, i + 1,
                               PutPair(pairs, HashKey(k.v),
                                       [Key |-> k.v, Value |-> v.v]),
                               env, v.h, d)

evalIfExpression(node, env, h, d) ==
    LET condition == Eval(node.Condition, env, h, d + 1)
    IN  IF Aborted(condition) THEN condition
        ELSE IF isError(condition.v) THEN condition
        ELSE IF isTruthy(condition.v)
             THEN Eval(node.Consequence, env, condition.h, d + 1)
        ELSE IF node.Alternative # NilBlock
             THEN Eval(node.Alternative, env, condition.h, d + 1)
        ELSE Ret(NULL, condition.h)

applyFunction(fn, args, h, d) ==
    CASE fn.type = FUNCTION_OBJ ->
            LET h1 == NewEnclosedEnvironment(fn.Env, h)
                callEnv == LastEnv(h1)
                bound == BindArguments(fn.Parameters, args, 0, callEnv, h1)
                body == evalBlockStatement(fn.Body, 1, NilObj, callEnv, bound.h, d)
            IN  IF Aborted(bound) THEN bound
                ELSE IF Aborted(body) THEN body
                ELSE Ret(unwrapReturnValue(body.v), body.h)
      [] fn.type = BUILTIN_OBJ -> CallBuiltin(fn.Fn, args, h)
      [] fn = NilObj -> NilDeref(h)
      [] OTHER -> newError("not a function: " \o Type(fn), h)

Eval(node, env, h, d) ==
    IF d > MaxDepth THEN Panic("stack overflow", h)
    ELSE
    CASE node.kind = "Program" ->
            evalProgram(node.Statements, 1, NilObj, env, h, d)
      [] node.kind = "ExpressionStatement" ->
            Eval(node.Expression, env, h, d + 1)
      [] node.kind = "ReturnStatement" ->
            LET val == Eval(node.ReturnValue, env, h, d + 1)
            IN  IF Aborted(val) THEN val
                ELSE IF isError(val.v) THEN val
                ELSE NewReturnValue(val.v, val.h)
      [] node.kind = "LetStatement" ->
            IF node.ptr = "nil" THEN NilDeref(h)
            ELSE LET val == Eval(node.Value, env, h, d + 1)
                 IN  IF Aborted(val) THEN val
                     ELSE IF isError(val.v) THEN val
                     ELSE Ret(val.v, Set(val.h, env, node.Name.Value, val.v))
      [] node.kind = "HashLiteral" ->
            evalHashLiteral(node, MapIteration(Len(node.Pairs), h), 1, <<>>,
                            env, [h EXCEPT !.ranged = h.ranged + 1], d)
      [] node.kind = "StringLiteral" -> Ret(String(node.Str), h)
      [] node.kind = "FunctionLiteral" ->
            NewFunction(node.Parameters, node.Body, env, h)
      [] node.kind = "CallExpression" ->
            LET function == Eval(node.Function, env, h, d + 1)
                args == evalExpressions(node.Arguments, 1, EmptySlice, env,
                                        function.h, d)
            IN  IF Aborted(function) THEN function
                ELSE IF isError(function.v) THEN function
                ELSE IF Aborted(args) THEN args
                ELSE IF args.v.len = 1 /\ isError(SliceAt(args.h, args.v, 0))
                     THEN Ret(SliceAt(args.h, args.v, 0), args.h)
                ELSE applyFunction(function.v, args.v, args.h, d)
      [] node.kind = "ArrayLiteral" ->
            LET elements == evalExpressions(node.Elements, 1, EmptySlice, env, h, d)
            IN  IF Aborted(elements) THEN elements
                ELSE IF elements.v.len = 1 /\ isError(SliceAt(elements.h, elements.v, 0))
                     THEN Ret(SliceAt(elements.h, elements.v, 0), elements.h)
                ELSE NewArray(elements.v, elements.h)
      [] node.kind = "IndexExpression" ->
            LET left == Eval(node.Left, env, h, d + 1)
                index == Eval(node.Index, env, left.h, d + 1)
            IN  IF Aborted(left) THEN left
                ELSE IF isError(left.v) THEN left
                ELSE IF Aborted(index) THEN index
                ELSE IF isError(index.v) THEN index
                ELSE evalIndexExpression(left.v, index.v, index.h)
      [] node.kind = "Identifier" -> evalIdentifier(node, env, h)
      [] node.kind = "IfExpression" -> evalIfExpression(node, env, h, d)
      [] node.kind = "BlockStatement" ->
            evalBlockStatement(node, 1, NilObj, env, h, d)
      [] node.kind = "IntegerLiteral" -> Ret(Integer(node.Int), h)
      [] node.kind = "BooleanExpression" ->
            Ret(nativeBoolToBooleanObject(node.Bool), h)
      [] node.kind = "PrefixExpression" ->
            LET right == Eval(node.Right, env, h, d + 1)
            IN  IF Aborted(right) THEN right
                ELSE IF isError(right.v) THEN right
                ELSE evalPrefixExpression(node.Operator, right.v, right.h)
      [] node.kind = "InfixExpression" ->
            LET left == Eval(node.Left, env, h, d + 1)
                right == Eval(node.Right, env, left.h, d + 1)
            IN  IF Aborted(left) THEN left
                ELSE IF Aborted(right) THEN right
                ELSE IF isError(left.v) THEN Ret(left.v, right.h)
                ELSE IF isError(right.v) THEN right
                ELSE evalInfixExpression(node.Operator, left.v, right.v, right.h)
      [] OTHER -> Ret(NilObj, h)

----------------------------------------------------------------------------
(* package token: the token types the lexer emits *)

\* The types are the strings of package token: "IDENT", "INT", "STRING",
\* "EOF", the text of an operator or delimiter, the upper-case keyword.

\* a token whose literal is a plain word or symbol
Token(type, literal) == [Type |-> type, Literal |-> literal]
\* an INT token: its literal is the sequence of its decimal digits
IntToken(digits) == [Type |-> "INT", Digits |-> digits]
\* a STRING token: its literal is the sequence of its bytes
StringToken(bytes) == [Type |-> "STRING", Bytes |-> bytes]

\* the text of a sequence of decimal digits
RECURSIVE DigitsString(_)
DigitsString(digits) ==
    IF digits = <<>> THEN ""
    ELSE ToString(Head(digits)) \o DigitsString(Tail(digits))

\* the text of a byte string (lower-case ASCII letters and the blank)
RECURSIVE BytesString(_)
BytesString(bytes) ==
    IF bytes = <<>> THEN ""
    ELSE LET lower == <<"a", "b", "c", "d", "e", "f", "g", "h", "i", "j", "k",
                        "l", "m", "n", "o", "p", "q", "r", "s", "t", "u", "v",
                        "w", "x", "y", "z">>
         IN  (IF Head(bytes) \in 97..122 THEN lower[Head(bytes) - 96] ELSE " ")
             \o BytesString(Tail(bytes))

\* Token.Literal as text
TokenLiteral(tok) ==
    CASE tok.Type = "INT" -> DigitsString(tok.Digits)
      [] tok.Type = "STRING" -> BytesString(tok.Bytes)
      [] OTHER -> tok.Literal

----------------------------------------------------------------------------
(* package parser *)

LOWEST == 1
EQUALS == 2
LESSGREATER == 3
SUM == 4
PRODUCT == 5
PREFIX == 6
CALL == 7
INDEX == 8

\* the bitSize handed to strconv.ParseInt (32 in the source, where the
\* integers are 64 bits wide: half the width)
ParseBits == IntBits \div 2

\* strconv.ParseInt(literal, 10, bitSize) on a literal of decimal digits: a
\* value beyond the range gives the largest value and an error
RECURSIVE ParseIntFrom(_, _, _, _)
ParseIntFrom(digits, i, acc, bits) ==
    IF i > Len(digits) THEN [val |-> acc, err |-> FALSE]
    ELSE LET next == (10 * acc) + digits[i]
         IN  IF next > TwoTo(bits - 1) - 1
             THEN [val |-> TwoTo(bits - 1) - 1, err |-> TRUE]
             ELSE ParseIntFrom(digits, i + 1, next, bits)

ParseInt(digits, bits) == ParseIntFrom(digits, 1, 0, bits)

precedences(type) ==
    CASE type \in {"==", "!="} -> EQUALS
      [] type \in {"<", ">"} -> LESSGREATER
      [] type \in {"+", "-"} -> SUM
      [] type \in {"/", "*"} -> PRODUCT
      [] type = "(" -> CALL
      [] type = "[" -> INDEX
      [] OTHER -> 0

\* the token types New registers a prefix parse function for
prefixParseFns ==
    {"IDENT", "INT", "!", "-", "TRUE", "FALSE",
     "(", "IF", "FUNCTION", "STRING", "["}

\* the token types New registers an infix parse function for
infixParseFns ==
    {"+", "-", "/", "*", "==",
     "!=", "<", ">", "(", "["}

\* the parser after New(l): curToken and peekToken are the first two tokens
\* of the lexer, which repeats EOF once the input is exhausted
\* hung: a loop of the parser has come back to the position it started an
\* iteration in; the parser's behaviour depends on the position alone, so the
\* loop would repeat that iteration for ever
New(toks) == [toks |-> toks, pos |-> 1, errors |-> <<>>, hung |-> FALSE]

TokenAt(p, i) == IF i <= Len(p.toks) THEN p.toks[i] ELSE Token("EOF", "")
curToken(p) == TokenAt(p, p.pos)
peekToken(p) == TokenAt(p, p.pos + 1)

nextToken(p) == [p EXCEPT !.pos = p.pos + 1]

\* the parser after a loop iteration that began at p and ended at q
Iterated(p, q) == IF q.pos > p.pos THEN q ELSE [q EXCEPT !.hung = TRUE]

curTokenIs(p, t) == curToken(p).Type = t
peekTokenIs(p, t) == peekToken(p).Type = t

peekPrecedence(p) ==
    IF precedences(peekToken(p).Type) # 0 THEN precedences(peekToken(p).Type)
    ELSE LOWEST

curPrecedence(p) ==
    IF precedences(curToken(p).Type) # 0 THEN precedences(curToken(p).Type)
    ELSE LOWEST

AddError(p, msg) == [p EXCEPT !.errors = Append(@, msg)]

peekError(p, t) ==
    AddError(p, "Expected token " \o t \o ", instead got " \o peekToken(p).Type)

noPrefixParseFuncError(p, t) ==
    AddError(p, "No prefix parse function found for " \o t)

expectPeek(p, t) ==
    IF peekTokenIs(p, t) THEN [ok |-> TRUE, p |-> nextToken(p)]
    ELSE [ok |-> FALSE, p |-> peekError(p, t)]

\* body(v): the value v, computed once, under a name in body
Bind(v, body(_)) == body(v)

\* what a parse function returns, and the parser after it
Parsed(node, p) == [node |-> node, p |-> p]

parseIdentifier(p) == Parsed(Identifier(TokenLiteral(curToken(p))), p)

parseStringLiteral(p) == Parsed(StringLiteral(curToken(p).Bytes), p)

parseBoolean(p) == Parsed(BooleanExpression(curTokenIs(p, "TRUE")), p)

parseIntegerLiteral(p) ==
    LET lit == TokenLiteral(curToken(p))
        parsed == ParseInt(curToken(p).Digits, ParseBits)
    IN  Parsed(IntegerLiteral(lit, parsed.val),
               IF parsed.err
               THEN AddError(p, "could not parse " \o lit \o " as integer")
               ELSE p)

\* the loop of parseFunctionParameters over ", <ident>"
RECURSIVE parseFunctionParametersLoop(_, _)
parseFunctionParametersLoop(params, p) ==
    IF ~p.hung /\ peekTokenIs(p, ",")
    THEN LET p2 == nextToken(nextToken(p))
         IN  parseFunctionParametersLoop(
                 Append(params, Identifier(TokenLiteral(curToken(p2)))),
                 Iterated(p, p2))
    ELSE [list |-> params, p |-> p]

\* a nil slice has no elements: it is the empty sequence
parseFunctionParameters(p) ==
    LET p1 == nextToken(p)
    IN  IF curTokenIs(p1, ")") THEN [list |-> <<>>, p |-> p1]
        ELSE LET more == parseFunctionParametersLoop(
                             <<Identifier(TokenLiteral(curToken(p1)))>>, p1)
                 closed == expectPeek(more.p, ")")
             IN  IF ~closed.ok THEN [list |-> <<>>, p |-> closed.p]
                 ELSE [list |-> more.list, p |-> closed.p]

RECURSIVE parseExpression(_, _)
RECURSIVE parseExpressionLoop(_, _, _)
RECURSIVE parsePrefix(_)
RECURSIVE parseInfix(_, _)
RECURSIVE parseStatement(_)
RECURSIVE parseBlockStatementLoop(_, _)
RECURSIVE parseExpressionListLoop(_, _)

parsePrefixExpression(p) ==
    Bind(parseExpression(PREFIX, nextToken(p)), LAMBDA right :
        Parsed(PrefixExpression(TokenLiteral(curToken(p)), right.node), right.p))

\* an infix expression whose right operand extends as far as it can
parseInfixExpressionGreedy(left, p) ==
    Bind(parseExpression(LOWEST, nextToken(p)), LAMBDA right :
        Parsed(InfixExpression(left, TokenLiteral(curToken(p)), right.node),
               right.p))

parseInfixExpression(left, p) ==
    Bind(parseExpression(curPrecedence(p), nextToken(p)), LAMBDA right :
        Parsed(InfixExpression(left, TokenLiteral(curToken(p)), right.node),
               right.p))

parseGroupedExpression(p) ==
    Bind(parseExpression(LOWEST, nextToken(p)), LAMBDA exp :
        LET closed == expectPeek(exp.p, ")")
        IN  IF ~closed.ok THEN Parsed(NilNode, closed.p)
            ELSE Parsed(exp.node, closed.p))

parseBlockStatement(p) ==
    Bind(parseBlockStatementLoop(<<>>, nextToken(p)), LAMBDA body :
        Parsed(BlockStatement(body.list), body.p))

\* a block whose loop does not move to the next token after a statement
parseBlockStatementLoopInPlace(stmts, p) ==
    IF ~p.hung /\ ~curTokenIs(p, "}") /\ ~curTokenIs(p, "EOF")
    THEN Bind(parseStatement(p), LAMBDA stmt :
             parseBlockStatementLoop(Append(stmts, stmt.node),
                                     Iterated(p, stmt.p)))
    ELSE [list |-> stmts, p |-> p]

parseBlockStatementLoop(stmts, p) ==
    IF ~p.hung /\ ~curTokenIs(p, "}") /\ ~curTokenIs(p, "EOF")
    THEN Bind(parseStatement(p), LAMBDA stmt :
             parseBlockStatementLoop(Append(stmts, stmt.node),
                                     Iterated(p, nextToken(stmt.p))))
    ELSE [list |-> stmts, p |-> p]

\* the end of parseIfExpression: the else branch after the consequence
parseIfAlternative(condition, consequence, p) ==
    IF peekTokenIs(p, "ELSE")
    THEN LET brace == expectPeek(nextToken(p), "{")
         IN  IF ~brace.ok THEN Parsed(NilNode, brace.p)
             ELSE Bind(parseBlockStatement(brace.p), LAMBDA alt :
                      Parsed(IfExpression(condition, consequence, alt.node), alt.p))
    ELSE Parsed(IfExpression(condition, consequence, NilBlock), p)

\* the middle of parseIfExpression: `) {` and the consequence
parseIfConsequence(condition, p) ==
    LET close == expectPeek(p, ")")
    IN  IF ~close.ok THEN Parsed(NilNode, close.p)
        ELSE LET brace == expectPeek(close.p, "{")
             IN  IF ~brace.ok THEN Parsed(NilNode, brace.p)
                 ELSE Bind(parseBlockStatement(brace.p), LAMBDA cons :
                          parseIfAlternative(condition, cons.node, cons.p))

parseIfExpression(p) ==
    LET open == expectPeek(p, "(")
    IN  IF ~open.ok THEN Parsed(NilNode, open.p)
        ELSE Bind(parseExpression(LOWEST, nextToken(open.p)), LAMBDA cond :
                 parseIfConsequence(cond.node, cond.p))

parseFunctionLiteral(p) ==
    LET open == expectPeek(p, "(")
    IN  IF ~open.ok THEN Parsed(NilNode, open.p)
        ELSE LET params == parseFunctionParameters(open.p)
             IN  Bind(parseBlockStatement(nextToken(params.p)), LAMBDA body :
                     Parsed(FunctionLiteral(params.list, body.node), body.p))

\* the loop of parseExpressionList over ", <expression>"
parseExpressionListLoop(args, p) ==
    IF ~p.hung /\ peekTokenIs(p, ",")
    THEN Bind(parseExpression(LOWEST, nextToken(nextToken(p))), LAMBDA arg :
             parseExpressionListLoop(Append(args, arg.node), Iterated(p, arg.p)))
    ELSE [list |-> args, p |-> p]

parseExpressionList(end, p) ==
    IF curTokenIs(nextToken(p), end) THEN [list |-> <<>>, p |-> nextToken(p)]
    ELSE Bind(parseExpression(LOWEST, nextToken(p)), LAMBDA first :
         Bind(parseExpressionListLoop(<<first.node>>, first.p), LAMBDA more :
             LET closed == expectPeek(more.p, end)
             IN  IF ~closed.ok THEN [list |-> <<>>, p |-> closed.p]
                 ELSE [list |-> more.list, p |-> closed.p]))

parseCallExpression(function, p) ==
    Bind(parseExpressionList(")", p), LAMBDA args :
        Parsed(CallExpression(function, args.list), args.p))

parseArrayLiteral(p) ==
    Bind(parseExpressionList("]", p), LAMBDA elems :
        Parsed(ArrayLiteral(elems.list), elems.p))

parseIndexExpression(left, p) ==
    Bind(parseExpression(LOWEST, nextToken(p)), LAMBDA index :
        LET closed == expectPeek(index.p, "]")
        IN  IF ~closed.ok THEN Parsed(NilNode, closed.p)
            ELSE Parsed(IndexExpression(left, index.node), closed.p))

\* prefixParseFns[p.curToken.Type]()
parsePrefix(p) ==
    LET t == curToken(p).Type
    IN  CASE t = "IDENT" -> parseIdentifier(p)
          [] t = "INT" -> parseIntegerLiteral(p)
          [] t \in {"!", "-"} -> parsePrefixExpression(p)
          [] t \in {"TRUE", "FALSE"} -> parseBoolean(p)
          [] t = "(" -> parseGroupedExpression(p)
          [] t = "IF" -> parseIfExpression(p)
          [] t = "FUNCTION" -> parseFunctionLiteral(p)
          [] t = "STRING" -> parseStringLiteral(p)
          [] t = "[" -> parseArrayLiteral(p)

\* infixParseFns[p.curToken.Type](left)
parseInfix(left, p) ==
    LET t == curToken(p).Type
    IN  CASE t = "(" -> parseCallExpression(left, p)
          [] t = "[" -> parseIndexExpression(left, p)
          [] OTHER -> parseInfixExpression(left, p)

parseExpression(precedence, p) ==
    IF curToken(p).Type \notin prefixParseFns
    THEN Parsed(NilNode, noPrefixParseFuncError(p, curToken(p).Type))
    ELSE Bind(parsePrefix(p), LAMBDA leftExp :
             parseExpressionLoop(precedence, leftExp.node, leftExp.p))

\* the loop of parseExpression over the infix operators that bind tighter
parseExpressionLoop(precedence, leftExp, p) ==
    IF ~p.hung /\ ~peekTokenIs(p, ";") /\ precedence < peekPrecedence(p)
    THEN IF peekToken(p).Type \notin infixParseFns THEN Parsed(leftExp, p)
         ELSE Bind(parseInfix(leftExp, nextToken(p)), LAMBDA next :
                  parseExpressionLoop(precedence, next.node, Iterated(p, next.p)))
    ELSE Parsed(leftExp, p)

parseExpressionStatement(p) ==
    Bind(parseExpression(LOWEST, p), LAMBDA e :
        Parsed(ExpressionStatement(e.node),
               IF peekTokenIs(e.p, ";") THEN nextToken(e.p) ELSE e.p))

parseReturnStatement(p) ==
    Bind(parseExpression(LOWEST, nextToken(p)), LAMBDA value :
        Parsed(ReturnStatement(value.node),
               expectPeek(value.p, ";").p))

parseLetStatement(p) ==
    LET name == expectPeek(p, "IDENT")
    IN  IF ~name.ok THEN Parsed(NilLetStatement, name.p)
        ELSE LET assign == expectPeek(name.p, "=")
             IN  IF ~assign.ok THEN Parsed(NilLetStatement, assign.p)
                 ELSE Bind(parseExpression(LOWEST, nextToken(assign.p)), LAMBDA value :
                          Parsed(LetStatement(Identifier(TokenLiteral(curToken(name.p))),
                                              value.node),
                                 expectPeek(value.p, ";").p))

parseStatement(p) ==
    CASE curToken(p).Type = "LET" -> parseLetStatement(p)
      [] curToken(p).Type = "RETURN" -> parseReturnStatement(p)
      [] OTHER -> parseExpressionStatement(p)

\* the loop of ParseProgram
RECURSIVE ParseProgramLoop(_, _)
ParseProgramLoop(stmts, p) ==
    IF ~p.hung /\ curToken(p).Type # "EOF"
    THEN Bind(parseStatement(p), LAMBDA statement :
             ParseProgramLoop(Append(stmts, statement.node),
                              Iterated(p, nextToken(statement.p))))
    ELSE Parsed(Program(stmts), p)

ParseProgram(p) == ParseProgramLoop(<<>>, p)

----------------------------------------------------------------------------
(* package ast: String() *)

RECURSIVE StringOf(_)
RECURSIVE StringOfAll(_, _)

\* the String() of every node of a list, joined by sep
StringOfAll(nodes, sep) ==
    IF nodes = <<>> THEN ""
    ELSE IF Len(nodes) = 1 THEN StringOf(nodes[1])
    ELSE StringOf(nodes[1]) \o sep \o StringOfAll(Tail(nodes), sep)

\* node.String(); a call through a nil node panics, written "<nil>" here
StringOf(node) ==
    CASE node.kind = "Program" -> StringOfAll(node.Statements, "")
      [] node.kind = "BlockStatement" ->
            IF node.ptr = "nil" THEN "<nil>" ELSE StringOfAll(node.Statements, "")
      [] node.kind = "LetStatement" ->
            IF node.ptr = "nil" THEN "<nil>"
            ELSE "let " \o node.Name.Value \o " = "
                 \o (IF node.Value # NilNode THEN StringOf(node.Value) ELSE "") \o ";"
      [] node.kind = "ReturnStatement" ->
            "return "
            \o (IF node.ReturnValue # NilNode THEN StringOf(node.ReturnValue) ELSE "")
            \o ";"
      [] node.kind = "ExpressionStatement" -> StringOf(node.Expression)
      [] node.kind = "Identifier" -> node.Value
      [] node.kind = "IntegerLiteral" -> node.Lit
      [] node.kind = "BooleanExpression" -> IF node.Bool THEN "true" ELSE "false"
      [] node.kind = "StringLiteral" -> "\"" \o BytesString(node.Str) \o "\""
      [] node.kind = "PrefixExpression" ->
            "(" \o node.Operator \o StringOf(node.Right) \o ")"
      [] node.kind = "InfixExpression" ->
            "(" \o StringOf(node.Left) \o " " \o node.Operator \o " "
            \o StringOf(node.Right) \o ")"
      [] node.kind = "IfExpression" ->
            "if" \o StringOf(node.Condition) \o " " \o StringOf(node.Consequence)
            \o (IF node.Alternative # NilBlock
                THEN "else " \o StringOf(node.Alternative) ELSE "")
      [] node.kind = "FunctionLiteral" ->
            "fn(" \o StringOfAll(node.Parameters, ", ") \o "){"
            \o StringOf(node.Body) \o "}"
      [] node.kind = "CallExpression" ->
            StringOf(node.Function) \o "(" \o StringOfAll(node.Arguments, ", ") \o ")"
      [] node.kind = "ArrayLiteral" ->
            "[" \o StringOfAll(node.Elements, ", ") \o "]"
      [] OTHER -> "<nil>"

----------------------------------------------------------------------------
(* The inputs: token sequences for the parser, trees for the evaluator *)

RECURSIVE Digits(_)
Digits(n) == IF n < 10 THEN <<n>> ELSE Digits(n \div 10) \o <<n % 10>>

\* tokens, as the lexer emits them
Sym(t) == Token(t, t)
Word(name) == Token("IDENT", name)
Num(n) == IntToken(Digits(n))
KwLet == Token("LET", "let")
KwFn == Token("FUNCTION", "fn")
KwIf == Token("IF", "if")
KwReturn == Token("RETURN", "return")
KwTrue == Token("TRUE", "true")
KwFalse == Token("FALSE", "false")

\* trees, as a caller of Eval builds them
IntLit(n) == IntegerLiteral(ToString(n), n)
Var(name) == Identifier(name)
Stmt(e) == ExpressionStatement(e)
Block(stmts) == BlockStatement(stmts)
If1(cond, stmts) == IfExpression(cond, Block(stmts), NilBlock)

\* the bytes of "one", "two", "thr", "ee"
StrOne == <<111, 110, 101>>
StrTwo == <<116, 119, 111>>
StrThr == <<116, 104, 114>>
StrEe == <<101, 101>>

BinaryOps == {"+", "-", "*", "/", "==", "!=", "<", ">"}

\* let f = fn(x) { fn(y) { x + y } }; let g = f(a); g(b)
ClosureProgram(a, b) ==
    Program(<<
        LetStatement(Var("f"),
            FunctionLiteral(<<Var("x")>>, Block(<<
                Stmt(FunctionLiteral(<<Var("y")>>, Block(<<
                    Stmt(InfixExpression(Var("x"), "+", Var("y")))>>)))>>))),
        LetStatement(Var("g"), CallExpression(Var("f"), <<a>>)),
        Stmt(CallExpression(Var("g"), <<b>>))>>)

ClosureSource(a, b) ==
    <<KwLet, Word("f"), Sym("="), KwFn, Sym("("), Word("x"), Sym(")"), Sym("{"),
      KwFn, Sym("("), Word("y"), Sym(")"), Sym("{"),
      Word("x"), Sym("+"), Word("y"), Sym("}"), Sym("}"), Sym(";"),
      KwLet, Word("g"), Sym("="), Word("f"), Sym("("), Num(a), Sym(")"), Sym(";"),
      Word("g"), Sym("("), Num(b), Sym(")")>>

ClosureInts == {MinInt, -1, 0, 2, 7, MaxInt}
ClosureDigits == {0, 2, 7}

\* [let x = <outerX>;] let f = fn() { x }; let g = fn(x) { f() }; g(<callerX>)
LexicalProgram(hasOuter, outerX, callerX) ==
    Program(
        (IF hasOuter THEN <<LetStatement(Var("x"), IntLit(outerX))>> ELSE <<>>)
        \o <<LetStatement(Var("f"), FunctionLiteral(<<>>, Block(<<Stmt(Var("x"))>>))),
             LetStatement(Var("g"),
                 FunctionLiteral(<<Var("x")>>,
                     Block(<<Stmt(CallExpression(Var("f"), <<>>))>>))),
             Stmt(CallExpression(Var("g"), <<IntLit(callerX)>>))>>)

LexicalInts == {1, 5}

\* n if-blocks, one in the other: the innermost returns 9, and each block
\* goes on, after the if it holds, with `let later = 1; return 10;`
RECURSIVE NestedReturn(_)
NestedReturn(n) ==
    IF n = 0 THEN <<ReturnStatement(IntLit(9))>>
    ELSE <<Stmt(If1(InfixExpression(IntLit(10), ">", IntLit(1)), NestedReturn(n - 1))),
           LetStatement(Var("later"), IntLit(1)),
           ReturnStatement(IntLit(10))>>

\* the statements at the top level of the program
NestedReturnProgram(n) == Program(NestedReturn(n))

\* the statements as the body of a function: let f = fn() { ... }; f() + 1
NestedReturnCall(n) ==
    Program(<<LetStatement(Var("f"), FunctionLiteral(<<>>, Block(NestedReturn(n)))),
              Stmt(InfixExpression(CallExpression(Var("f"), <<>>), "+", IntLit(1)))>>)

\* if (true) { return n }
ReturnIf(n) == If1(BooleanExpression(TRUE), <<ReturnStatement(IntLit(n))>>)

\* an if-expression that returns, used where a value is expected
ReturnAsValuePrograms ==
    {Program(<<Stmt(InfixExpression(IntLit(1), "+", ReturnIf(2)))>>),
     Program(<<Stmt(PrefixExpression("-", ReturnIf(2)))>>),
     Program(<<Stmt(ArrayLiteral(<<ReturnIf(2)>>))>>),
     Program(<<LetStatement(Var("f"), FunctionLiteral(<<Var("a")>>, Block(<<Stmt(Var("a"))>>))),
               Stmt(CallExpression(Var("f"), <<ReturnIf(2)>>))>>),
     Program(<<LetStatement(Var("x"), ReturnIf(2)), Stmt(IntLit(5))>>),
     Program(<<ReturnStatement(ReturnIf(2))>>),
     Program(<<Stmt(IndexExpression(ArrayLiteral(<<IntLit(1)>>), ReturnIf(0)))>>),
     Program(<<Stmt(CallExpression(ReturnIf(2), <<>>))>>)}

\* expressions that evaluate to an Error
ErrorExpressions ==
    {Var("foobar"),
     InfixExpression(IntLit(5), "+", BooleanExpression(TRUE)),
     PrefixExpression("-", BooleanExpression(TRUE))}

\* expressions put beside them: a value, an Error, a division by zero
Siblings ==
    {IntLit(1), Var("baz"), InfixExpression(IntLit(1), "/", IntLit(0))}

\* every kind of node the evaluator checks a sub-expression's Error in, with
\* the erroring expression e in each position and x in the other
Enclosing(e, x) ==
    {Stmt(PrefixExpression("!", e)),
     Stmt(PrefixExpression("-", e)),
     Stmt(InfixExpression(e, "+", x)),
     Stmt(InfixExpression(x, "+", e)),
     Stmt(CallExpression(e, <<x>>)),
     Stmt(CallExpression(Var("len"), <<e>>)),
     Stmt(CallExpression(Var("push"), <<x, e>>)),
     Stmt(CallExpression(Var("push"), <<e, x>>)),
     Stmt(ArrayLiteral(<<e>>)),
     Stmt(ArrayLiteral(<<x, e>>)),
     Stmt(ArrayLiteral(<<e, x>>)),
     Stmt(HashLiteral(<< <<e, x>> >>)),
     Stmt(HashLiteral(<< <<x, e>> >>)),
     Stmt(IndexExpression(e, x)),
     Stmt(IndexExpression(x, e)),
     LetStatement(Var("a"), e),
     ReturnStatement(e),
     Stmt(If1(e, <<Stmt(x)>>))}

ErrorPrograms ==
    {Program(<<st>>) : st \in UNION {Enclosing(e, x) : <<e, x>> \in ErrorExpressions \X Siblings}}

\* hash literals: distinct keys, two keys with one HashKey, pairs that err
HashPrograms ==
    {Program(<<LetStatement(Var("two"), StringLiteral(StrTwo)),
               Stmt(HashLiteral(<< <<StringLiteral(StrOne), InfixExpression(IntLit(10), "-", IntLit(9))>>,
                                   <<Var("two"), InfixExpression(IntLit(1), "+", IntLit(1))>>,
                                   <<InfixExpression(StringLiteral(StrThr), "+", StringLiteral(StrEe)),
                                     InfixExpression(IntLit(6), "/", IntLit(2))>> >>))>>),
     Program(<<Stmt(HashLiteral(<< <<IntLit(4), IntLit(4)>>, <<BooleanExpression(TRUE), IntLit(5)>>,
                                   <<BooleanExpression(FALSE), IntLit(6)>> >>))>>),
     Program(<<Stmt(HashLiteral(<< <<IntLit(1), IntLit(10)>>, <<IntLit(1), IntLit(20)>> >>))>>),
     Program(<<Stmt(HashLiteral(<< <<IntLit(1), Var("foobar")>>,
                                   <<IntLit(2), InfixExpression(IntLit(5), "+", BooleanExpression(TRUE))>> >>))>>),
     Program(<<Stmt(HashLiteral(<< <<IntLit(1), IntLit(10)>> >>))>>),
     Program(<<Stmt(HashLiteral(<<>>))>>)}

Call(name, args) == CallExpression(Var(name), args)

\* [1, 2, ..., n]
ArrayOf(n) == ArrayLiteral([i \in 1..n |-> IntLit(i)])

\* let a = [1, ..., n]; let b = push(a, 8); let c = push(a, 9); b
PushProgram(n) ==
    Program(<<LetStatement(Var("a"), ArrayOf(n)),
              LetStatement(Var("b"), Call("push", <<Var("a"), IntLit(8)>>)),
              LetStatement(Var("c"), Call("push", <<Var("a"), IntLit(9)>>)),
              Stmt(Var("b"))>>)

\* tail([1, ..., n])
TailProgram(n) == Program(<<Stmt(Call("tail", <<ArrayOf(n)>>))>>)

\* the arguments a builtin does not support, each with the name of its type
Unsupported(name) ==
    {<<IntLit(1), INTEGER_OBJ>>, <<BooleanExpression(TRUE), BOOLEAN_OBJ>>}
    \cup IF name = "len" THEN {} ELSE {<<StringLiteral(StrOne), STRING_OBJ>>}

\* name(arg), and push(arg, 1)
BuiltinProgram(name, arg) ==
    Program(<<Stmt(Call(name, IF name = "push" THEN <<arg, IntLit(1)>>
                              ELSE <<arg>>))>>)

\* let <name> = 5; <name>   and   fn(<name>) { <name> }(5)
ShadowProgram(name, asParameter) ==
    IF asParameter
    THEN Program(<<Stmt(CallExpression(
                       FunctionLiteral(<<Var(name)>>, Block(<<Stmt(Var(name))>>)),
                       <<IntLit(5)>>))>>)
    ELSE Program(<<LetStatement(Var(name), IntLit(5)), Stmt(Var(name))>>)

\* the names of the builtins, and one that is no builtin's
BoundNames == builtins \cup {"foo"}

\* the name of the k-th parameter
Param(k) == "p" \o ToString(k)

\* let f = fn(p1, ..., pk) { pk }; f(11, ..., 10 + n), the body 7 when k = 0;
\* with outer, let pk = 3 comes first
ArityProgram(k, n, outer) ==
    Program((IF outer THEN <<LetStatement(Var(Param(k)), IntLit(3))>> ELSE <<>>)
            \o <<LetStatement(Var("f"),
                     FunctionLiteral([i \in 1..k |-> Var(Param(i))],
                         Block(<<Stmt(IF k = 0 THEN IntLit(7) ELSE Var(Param(k)))>>))),
                 Stmt(Call("f", [i \in 1..n |-> IntLit(10 + i)]))>>)

Arities == (0..MaxParams) \X (0..(MaxParams + 1)) \X BOOLEAN

\* a / 0
DivisionProgram(a) == Program(<<Stmt(InfixExpression(IntLit(a), "/", IntLit(0)))>>)

\* the expression of the integer i, as the parser builds it
Signed(i) == IF i < 0 THEN PrefixExpression("-", IntLit(-i)) ELSE IntLit(i)

\* [1, ..., n][i]
IndexProgram(n, i) == Program(<<Stmt(IndexExpression(ArrayOf(n), Signed(i)))>>)

\* the indices: around the ends of the arrays, and the two ends of the integers
Indices == (-2..(MaxElems + 1)) \cup {-MaxInt, MaxInt}

\* expressions of hashable values: some give one value in two ways
HashableExpressions ==
    {IntLit(0), IntLit(1), Signed(-1),
     InfixExpression(IntLit(0), "-", IntLit(1)),
     InfixExpression(IntLit(MaxInt), "+", IntLit(1)),
     InfixExpression(Signed(-MaxInt), "-", IntLit(1)),
     BooleanExpression(TRUE), BooleanExpression(FALSE),
     PrefixExpression("!", BooleanExpression(FALSE)),
     InfixExpression(IntLit(1), "<", IntLit(2)),
     StringLiteral(StrOne), StringLiteral(StrTwo),
     InfixExpression(StringLiteral(StrThr), "+", StringLiteral(StrEe))}

\* let u = <u>; let v = <v>; u == v
EqualProgram(u, v) ==
    Program(<<LetStatement(Var("u"), u), LetStatement(Var("v"), v),
              Stmt(InfixExpression(Var("u"), "==", Var("v")))>>)

\* expressions of values of every variant, each with its truthiness
TruthExpressions ==
    {<<IntLit(0), TRUE>>, <<IntLit(5), TRUE>>,
     <<BooleanExpression(TRUE), TRUE>>, <<BooleanExpression(FALSE), FALSE>>,
     <<InfixExpression(IntLit(1), ">", IntLit(2)), FALSE>>,
     <<If1(BooleanExpression(FALSE), <<Stmt(IntLit(1))>>), FALSE>>,
     <<StringLiteral(<<>>), TRUE>>, <<StringLiteral(StrOne), TRUE>>,
     <<ArrayOf(0), TRUE>>, <<ArrayOf(1), TRUE>>, <<HashLiteral(<<>>), TRUE>>,
     <<FunctionLiteral(<<>>, Block(<<Stmt(BooleanExpression(FALSE))>>)), TRUE>>,
     <<Var("len"), TRUE>>}

\* let v = <e>; followed by if (v) { 10 } else { 20 }, by if (v) { 10 } or by !v
TruthProgram(e, form) ==
    Program(<<LetStatement(Var("v"), e),
              Stmt(CASE form = "ifelse" ->
                            IfExpression(Var("v"), Block(<<Stmt(IntLit(10))>>),
                                         Block(<<Stmt(IntLit(20))>>))
                     [] form = "if" -> If1(Var("v"), <<Stmt(IntLit(10))>>)
                     [] form = "bang" -> PrefixExpression("!", Var("v")))>>)

TruthForms == {"ifelse", "if", "bang"}

\* an expression of every type of value, each with the name of the type
TypedExpressions ==
    {<<IntLit(5), INTEGER_OBJ>>, <<BooleanExpression(TRUE), BOOLEAN_OBJ>>,
     <<StringLiteral(StrOne), STRING_OBJ>>,
     <<If1(BooleanExpression(FALSE), <<Stmt(IntLit(1))>>), NULL_OBJ>>,
     <<ArrayOf(1), ARRAY_OBJ>>, <<HashLiteral(<<>>), HASH_OBJ>>,
     <<FunctionLiteral(<<>>, Block(<<Stmt(IntLit(1))>>)), FUNCTION_OBJ>>,
     <<Var("len"), BUILTIN_OBJ>>}

\* <l> op <r>
InfixProgram(l, op, r) == Program(<<Stmt(InfixExpression(l, op, r))>>)

\* statements that end a sequence: <<statement, is an Error, its message>>;
\* the returns are of 7
Stoppers ==
    {<<ReturnStatement(IntLit(7)), FALSE, "">>,
     <<Stmt(If1(BooleanExpression(TRUE), <<ReturnStatement(IntLit(7))>>)), FALSE, "">>,
     <<Stmt(Var("foobar")), TRUE, "identifier not found: foobar">>,
     <<Stmt(PrefixExpression("-", BooleanExpression(TRUE))), TRUE,
       "unknown operator: -BOOLEAN">>,
     <<LetStatement(Var("b"), Var("foobar")), TRUE, "identifier not found: foobar">>,
     <<ReturnStatement(Var("foobar")), TRUE, "identifier not found: foobar">>}

\* let a = 1; followed by the sequence <stopper>; let b = 2; 9
\*   as statements of the program,
\*   in the block of if (true) { ... }; let c = 3; 8, or
\*   in the body of let f = fn() { ... }; f()
StopProgram(stopper, form) ==
    LET rest == <<stopper, LetStatement(Var("b"), IntLit(2)), Stmt(IntLit(9))>>
    IN  Program(<<LetStatement(Var("a"), IntLit(1))>> \o
                CASE form = "program" -> rest
                  [] form = "block" ->
                        <<Stmt(If1(BooleanExpression(TRUE), rest)),
                          LetStatement(Var("c"), IntLit(3)), Stmt(IntLit(8))>>
                  [] form = "body" ->
                        <<LetStatement(Var("f"), FunctionLiteral(<<>>, Block(rest))),
                          Stmt(Call("f", <<>>))>>)

StopForms == {"program", "block", "body"}

\* what comes after the erring sub-expression: if (true) { let z = 1; z },
\* which binds z, and 1 / 0, which fails
Followers ==
    {If1(BooleanExpression(TRUE), <<LetStatement(Var("z"), IntLit(1)), Stmt(Var("z"))>>),
     InfixExpression(IntLit(1), "/", IntLit(0))}

\* foobar + <e>,   [foobar, <e>]   and   len(foobar, <e>)
AfterErrorProgram(e, form) ==
    Program(<<Stmt(CASE form = "infix" -> InfixExpression(Var("foobar"), "+", e)
                     [] form = "array" -> ArrayLiteral(<<Var("foobar"), e>>)
                     [] form = "call" -> Call("len", <<Var("foobar"), e>>))>>)

AfterErrorForms == {"infix", "array", "call"}

\* bodies of a closure over n, a and b: they bind names of the captured
\* scope anew, read it, and push onto its Array
ClosureBodies ==
    {<<LetStatement(Var("n"), Var("x")), Stmt(Var("n"))>>,
     <<LetStatement(Var("a"), Var("x")), LetStatement(Var("c"), Var("x")), Stmt(Var("a"))>>,
     <<Stmt(InfixExpression(Var("n"), "+", Var("x")))>>,
     <<Stmt(Call("push", <<Var("a"), Var("x")>>))>>,
     <<Stmt(If1(BooleanExpression(TRUE), <<LetStatement(Var("b"), Var("x"))>>))>>}

\* let f = fn(n) { let a = [1, ..., k]; let b = push(a, 8); fn(x) { <body> } };
\* let g = f(5);
CapturingCall(k, body) ==
    <<LetStatement(Var("f"),
          FunctionLiteral(<<Var("n")>>, Block(<<
              LetStatement(Var("a"), ArrayOf(k)),
              LetStatement(Var("b"), Call("push", <<Var("a"), IntLit(8)>>)),
              Stmt(FunctionLiteral(<<Var("x")>>, Block(body)))>>))),
      LetStatement(Var("g"), Call("f", <<IntLit(5)>>))>>

\* ... followed by g(9); g(10)
FrozenProgram(k, body) ==
    Program(CapturingCall(k, body)
            \o <<Stmt(Call("g", <<IntLit(9)>>)), Stmt(Call("g", <<IntLit(10)>>))>>)

\* let f = fn(n) { if (n > 0) { f(n - 1) } else { 0 } }; f(k)
CountdownProgram(k) ==
    Program(<<LetStatement(Var("f"),
                  FunctionLiteral(<<Var("n")>>, Block(<<Stmt(
                      IfExpression(InfixExpression(Var("n"), ">", IntLit(0)),
                          Block(<<Stmt(Call("f", <<InfixExpression(Var("n"), "-", IntLit(1))>>))>>),
                          Block(<<Stmt(IntLit(0))>>)))>>))),
              Stmt(Call("f", <<IntLit(k)>>))>>)

\* let f = fn() { f() }; f()
\* let f = fn() { g() }; let g = fn() { f() }; f()
EndlessPrograms ==
    {Program(<<LetStatement(Var("f"),
                   FunctionLiteral(<<>>, Block(<<Stmt(Call("f", <<>>))>>))),
               Stmt(Call("f", <<>>))>>),
     Program(<<LetStatement(Var("f"),
                   FunctionLiteral(<<>>, Block(<<Stmt(Call("g", <<>>))>>))),
               LetStatement(Var("g"),
                   FunctionLiteral(<<>>, Block(<<Stmt(Call("f", <<>>))>>))),
               Stmt(Call("f", <<>>))>>)}

\* programs with a function that calls itself
RecursivePrograms == {CountdownProgram(k) : k \in 0..MaxCalls} \cup EndlessPrograms

\* let x = <gx>; let f = fn(x) { let x = x + 10; x };
\* let h = fn() { let x = <cx>; f(<px>) + x }; let r = h(); x + r
ScopesProgram(gx, cx, px) ==
    Program(<<LetStatement(Var("x"), IntLit(gx)),
              LetStatement(Var("f"),
                  FunctionLiteral(<<Var("x")>>, Block(<<
                      LetStatement(Var("x"), InfixExpression(Var("x"), "+", IntLit(10))),
                      Stmt(Var("x"))>>))),
              LetStatement(Var("h"),
                  FunctionLiteral(<<>>, Block(<<
                      LetStatement(Var("x"), IntLit(cx)),
                      Stmt(InfixExpression(Call("f", <<IntLit(px)>>), "+", Var("x")))>>))),
              LetStatement(Var("r"), Call("h", <<>>)),
              Stmt(InfixExpression(Var("x"), "+", Var("r")))>>)

ScopeInts == {1, 5, 20}

\* [1, 2][<e>]
IndexedBy(e) == Program(<<Stmt(IndexExpression(ArrayOf(2), e))>>)

\* the expressions of a value that is no Integer
NonIntegers == {t[1] : t \in {u \in TypedExpressions : u[2] # INTEGER_OBJ}}

Trees ==
    {ClosureProgram(IntLit(a), IntLit(b)) : <<a, b>> \in ClosureInts \X ClosureInts}
    \cup {LexicalProgram(o, ox, cx) : <<o, ox, cx>> \in BOOLEAN \X LexicalInts \X LexicalInts}
    \cup {NestedReturnProgram(n) : n \in 0..MaxNest}
    \cup {NestedReturnCall(n) : n \in 0..MaxNest}
    \cup ReturnAsValuePrograms
    \cup ErrorPrograms
    \cup HashPrograms
    \cup {PushProgram(n) : n \in 0..MaxElems}
    \cup {TailProgram(n) : n \in 0..MaxElems}
    \cup {ShadowProgram(name, par) : <<name, par>> \in BoundNames \X BOOLEAN}
    \cup {ArityProgram(a[1], a[2], a[3]) : a \in Arities}
    \cup {DivisionProgram(a) : a \in ClosureInts}
    \cup {IndexProgram(n, i) : <<n, i>> \in (0..MaxElems) \X Indices}
    \cup {EqualProgram(u, v) : <<u, v>> \in HashableExpressions \X HashableExpressions}
    \cup {TruthProgram(e[1], form) : <<e, form>> \in TruthExpressions \X TruthForms}
    \cup {InfixProgram(l[1], op, r[1]) :
              <<l, op, r>> \in TypedExpressions \X BinaryOps \X TypedExpressions}
    \cup {StopProgram(st[1], form) : <<st, form>> \in Stoppers \X StopForms}
    \cup {AfterErrorProgram(e, form) : <<e, form>> \in Followers \X AfterErrorForms}
    \cup {FrozenProgram(k, body) : <<k, body>> \in (0..MaxElems) \X ClosureBodies}
    \cup RecursivePrograms
    \cup {ScopesProgram(gx, cx, px) : <<gx, cx, px>> \in ScopeInts \X ScopeInts \X ScopeInts}
    \cup {IndexedBy(e) : e \in NonIntegers}
    \cup UNION {{BuiltinProgram(name, a[1]) : a \in Unsupported(name)} :
                    name \in builtins}

\* x op1 y op2 z
PrecedenceSource(op1, op2) == <<Word("x"), Sym(op1), Word("y"), Sym(op2), Word("z")>>

\* <pre>a op b, pre one of - and !
PrefixSource(pre, op) == <<Sym(pre), Word("a"), Sym(op), Word("b")>>

\* the pairs of a hash literal of the source text: the token of each key,
\* the object it evaluates to, and the integer its value is
HashCases ==
    {<< [tok |-> StringToken(StrOne), key |-> String(StrOne), n |-> 1] >>,
     << [tok |-> Num(4), key |-> Integer(4), n |-> 4],
        [tok |-> KwTrue, key |-> TrueObj, n |-> 5] >>,
     << [tok |-> KwFalse, key |-> FalseObj, n |-> 6],
        [tok |-> StringToken(StrTwo), key |-> String(StrTwo), n |-> 2],
        [tok |-> Num(1), key |-> Integer(1), n |-> 3] >>}

RECURSIVE HashPairTokens(_, _)
HashPairTokens(case, i) ==
    IF i > Len(case) THEN <<>>
    ELSE (IF i > 1 THEN <<Sym(",")>> ELSE <<>>)
         \o <<case[i].tok, Sym(":"), Num(case[i].n)>>
         \o HashPairTokens(case, i + 1)

\* { k1: v1, ..., kn: vn }
HashSource(case) == <<Sym("{")>> \o HashPairTokens(case, 1) \o <<Sym("}")>>

HashSources == {HashSource(case) : case \in HashCases}

\* let and return statements that no `;` follows
NoSemicolonSources ==
    {<<KwLet, Word("x"), Sym("="), Num(5)>>,
     <<KwReturn, Num(5)>>,
     <<KwLet, Word("x"), Sym("="), Num(5), KwLet, Word("y"), Sym("="), Num(6), Sym(";")>>,
     <<KwIf, Sym("("), KwTrue, Sym(")"), Sym("{"), KwReturn, Num(9), Sym("}")>>,
     <<KwIf, Sym("("), KwTrue, Sym(")"), Sym("{"), KwLet, Word("x"), Sym("="), Num(9), Sym("}")>>,
     <<KwFn, Sym("("), Sym(")"), Sym("{"), KwReturn, Num(9), Sym("}")>>}

\* the same statements with their `;`
SemicolonSources ==
    {<<KwLet, Word("x"), Sym("="), Num(5), Sym(";")>>,
     <<KwReturn, Num(5), Sym(";")>>,
     <<KwIf, Sym("("), KwTrue, Sym(")"), Sym("{"), KwReturn, Num(9), Sym(";"), Sym("}")>>}

\* let statements without a name, or without `=` after the name
BadLetSources ==
    {<<KwLet, Sym("="), Num(5), Sym(";")>>,
     <<KwLet, Word("x"), Num(5), Sym(";")>>,
     <<KwLet, Num(5), Sym("="), Num(5), Sym(";")>>,
     <<KwLet>>}

\* every token sequence of MaxTokens tokens at most, for malformed input
TokenSequences ==
    LET Alphabet ==
            {KwLet, KwReturn, KwFn, KwIf, Token("ELSE", "else"), KwTrue,
             Word("x"), Num(5), StringToken(StrOne), Sym("="), Sym(";"),
             Sym("("), Sym(")"), Sym("{"), Sym("}"), Sym("["), Sym("]"),
             Sym(","), Sym(":"), Sym("-"), Sym("+"), Sym("!")}
    IN  UNION {[1..n -> Alphabet] : n \in 0..MaxTokens}

\* longer input that ends inside a block, a list, a parameter list, an
\* expression, or goes on after a stray token
UnfinishedSources ==
    {<<KwIf, Sym("("), Word("x"), Sym(")"), Sym("{"), Word("x")>>,
     <<KwIf, Sym("("), Word("x"), Sym(")"), Sym("{"), KwLet>>,
     <<KwIf, Sym("("), Word("x"), Sym(")"), Sym("{"), Word("x"), Sym("}"),
       Token("ELSE", "else"), Sym("{"), KwReturn>>,
     <<KwIf, Sym("("), Word("x"), Sym("{"), Word("x"), Sym("}")>>,
     <<KwFn, Sym("("), Word("x"), Sym(","), Word("x"), Sym(",")>>,
     <<KwFn, Sym("("), Word("x"), Sym(","), Sym(")"), Sym("{"), Sym("}")>>,
     <<KwFn, Sym("("), Num(5), Sym(")"), Sym("{"), KwFn, Sym("("), Sym(")"), Sym("{")>>,
     <<KwFn, Sym("("), Word("x"), Sym(")"), Word("x"), Word("x"), Sym("}")>>,
     <<Word("x"), Sym("("), Num(5), Sym(","), Num(5), Sym(",")>>,
     <<Word("x"), Sym("("), Num(5), Sym(","), Sym(","), Sym(")")>>,
     <<Sym("["), Num(5), Sym(","), Sym("["), Num(5), Sym(",")>>,
     <<Sym("["), Num(5), Sym(","), Num(5), Sym(";"), Sym("]")>>,
     <<Word("x"), Sym("["), Num(5), Sym("+")>>,
     <<Word("x"), Sym("+"), Sym("-"), Sym("!"), Sym("(")>>,
     <<Sym("("), Sym("("), Sym("("), Word("x"), Sym(")")>>,
     <<Sym("}"), Sym("}"), Sym(")"), Sym("]"), Sym(";"), Sym(";")>>,
     <<KwLet, Word("x"), Sym("="), KwFn, Sym("("), Sym(")"), Sym("{"),
       KwLet, Word("x"), Sym("="), KwIf>>,
     <<KwReturn, KwReturn, KwLet, KwLet, Sym("=")>>}

\* the values of the integer literals: small ones, those around the end of
\* ParseInt's range, the largest integer and two beyond it
LiteralValues ==
    {0, 5, TwoTo(ParseBits - 1) - 1, TwoTo(ParseBits - 1), TwoTo(ParseBits),
     MaxInt - 1, MaxInt, MaxInt + 1, 10 * MaxInt}

\* if (true) { }
EmptyIf == <<KwIf, Sym("("), KwTrue, Sym(")"), Sym("{"), Sym("}")>>

\* fn() { }()
EmptyCall == <<KwFn, Sym("("), Sym(")"), Sym("{"), Sym("}"), Sym("("), Sym(")")>>

\* sources without statements, or with an empty block that is taken or
\* called, alone and as an operand
EmptySources ==
    {<<>>, EmptyIf, EmptyCall,
     <<KwIf, Sym("("), KwFalse, Sym(")"), Sym("{"), Num(1), Sym("}"),
       Token("ELSE", "else"), Sym("{"), Sym("}")>>,
     <<Num(5), Sym("+")>> \o EmptyIf,
     <<Sym("-")>> \o EmptyCall,
     <<Sym("["), Num(1), Sym("]"), Sym("[")>> \o EmptyCall \o <<Sym("]")>>}

Sources ==
    {ClosureSource(a, b) : <<a, b>> \in ClosureDigits \X ClosureDigits}
    \cup {PrecedenceSource(op1, op2) : <<op1, op2>> \in BinaryOps \X BinaryOps}
    \cup {PrefixSource(pre, op) : <<pre, op>> \in {"-", "!"} \X BinaryOps}
    \cup HashSources
    \cup NoSemicolonSources
    \cup SemicolonSources
    \cup BadLetSources
    \cup TokenSequences
    \cup EmptySources
    \cup {<<Num(v)>> : v \in LiteralValues}
    \cup UnfinishedSources

----------------------------------------------------------------------------
(* The state machine: parse the source, then evaluate the program *)

\* the orders a map iteration may take
MapOrders == {ord \in [1..MaxPairs -> 1..MaxPairs] : \A i, j \in 1..MaxPairs : ord[i] = ord[j] => i = j}

SourceOrder == [i \in 1..MaxPairs |-> i]

NoResult == [v |-> NilObj, h |-> <<>>, abort |-> "not evaluated"]

\* env := object.NewEnvironment(), the first environment of the heap
InitialHeap(ord) == NewEnvironment(NewHeap(ord))

Init ==
    /\ \/ /\ input \in Sources
          /\ program = Program(<<>>)
          /\ pc = "source"
       \/ /\ input = <<>>
          /\ program \in Trees
          /\ pc = "parsed"
    /\ errors = <<>>
    /\ heap = InitialHeap(SourceOrder)
    /\ result = NoResult

\* p := parser.New(l); program := p.ParseProgram()
Parse ==
    /\ pc = "source"
    /\ LET parsed == ParseProgram(New(input))
       IN  /\ program' = parsed.node
           /\ errors' = parsed.p.errors
           /\ pc' = IF parsed.p.hung THEN "hung" ELSE "parsed"
    /\ UNCHANGED <<input, heap, result>>

\* Eval(program, env); the order of map iteration is the runtime's choice,
\* and makes no difference to a run that iterates over no map
Evaluate ==
    /\ pc = "parsed"
    /\ \E ord \in MapOrders :
          LET r == Eval(program, 1, InitialHeap(ord), 0)
          IN  /\ ord = SourceOrder \/ r.h.ranged > 0
              /\ result' = r
              /\ heap' = r.h
    /\ pc' = "evaluated"
    /\ UNCHANGED <<input, program, errors>>

Next == Parse \/ Evaluate

Spec == Init /\ [][Next]_vars

----------------------------------------------------------------------------
(* The properties *)

Evaluated == pc = "evaluated"

\* the run ended with the value v, without a panic
Yields(v) == result.abort = "" /\ result.v = v

\* the run ended with an Error of this message
YieldsError(msg) ==
    result.abort = "" /\ result.v.type = ERROR_OBJ /\ result.v.Message = msg

\* the value bound to name in the environment e itself
Bound(e, name) == heap.envs[e].store[name]

\* C1: with f = fn(x) { fn(y) { x + y } } and g = f(a), the call g(b) yields
\* the Integer a + b whenever the sum is in range: g reads x from the scope of
\* the call f(a), which it captured, after that call has returned.
ClosureReadsCapturedScope ==
    \A a, b \in ClosureInts :
        (/\ Evaluated
         /\ program = ClosureProgram(IntLit(a), IntLit(b))
         /\ a + b \in MinInt..MaxInt)
        => /\ Yields(Integer(a + b))
           /\ Bound(1, "g").Env = 2
           /\ Bound(2, "x") = Integer(a)
           /\ heap.envs[3].outer = 2
           /\ Bound(3, "y") = Integer(b)

\* the call g(-1) after f(MaxInt) has returned
ClosureCalled ==
    /\ Evaluated
    /\ program = ClosureProgram(IntLit(MaxInt), IntLit(-1))
    /\ Len(heap.envs) = 3

\* C2: a call's scope encloses the scope the function literal was evaluated
\* in, never the caller's: the free x of f, called from inside g(x), is the x
\* of the scope f was made in, and is not found when only g's call binds x.
LexicalScoping ==
    \A hasOuter \in BOOLEAN, outerX, callerX \in LexicalInts :
        (Evaluated /\ program = LexicalProgram(hasOuter, outerX, callerX))
        => /\ IF hasOuter THEN Yields(Integer(outerX))
              ELSE YieldsError("identifier not found: x")
           /\ Bound(2, "x") = Integer(callerX)
           /\ heap.envs[2].outer = Bound(1, "g").Env
           /\ heap.envs[3].outer = Bound(1, "f").Env
           /\ heap.envs[3].outer # 2

\* f was called from the call g(5), whose scope alone binds x
CalledFromBindingCaller ==
    /\ Evaluated
    /\ program = LexicalProgram(FALSE, 1, 5)
    /\ Len(heap.envs) = 3
    /\ "x" \in DOMAIN heap.envs[2].store
    /\ "x" \notin DOMAIN heap.envs[1].store

\* C3: a return inside nested blocks ends every enclosing block at once: the
\* block hands the ReturnValue on still wrapped and runs no later statement,
\* and evalProgram or applyFunction unwraps it; the innermost value 9 is the
\* result, never the 10 an outer block returns later.
NestedReturnBubbles ==
    \A n \in 0..MaxNest :
        /\ (Evaluated /\ program = NestedReturnProgram(n))
           => /\ Yields(Integer(9))
              /\ "later" \notin DOMAIN heap.envs[1].store
              /\ LET inBlock == evalBlockStatement(Block(NestedReturn(n)), 1, NilObj, 1,
                                                   InitialHeap(SourceOrder), 0)
                 IN  /\ inBlock.v.type = RETURN_VALUE_OBJ
                     /\ inBlock.v.val = Integer(9)
        /\ (Evaluated /\ program = NestedReturnCall(n))
           => /\ Yields(Integer(10))
              /\ "later" \notin DOMAIN heap.envs[2].store

\* the return sits in the innermost of MaxNest blocks of a function body
ReturnedFromInnermostBlock ==
    /\ Evaluated
    /\ program = NestedReturnCall(MaxNest)
    /\ result.abort = ""

\* the error messages that name RETURN_VALUE as the type of an operand
ReturnValueMessages ==
    {"type mismatch: INTEGER + RETURN_VALUE",
     "unknown operator: -RETURN_VALUE",
     "not a function: RETURN_VALUE",
     "index operator not supported: RETURN_VALUE"}

\* C4: the ReturnValue sentinel is never visible: a program's result is no
\* ReturnValue, no environment binding and no array element holds one, and
\* no operation gets one as an operand (no Error names the type RETURN_VALUE).
ReturnValueNeverVisible ==
    (Evaluated /\ result.abort = "")
    => /\ result.v.type # RETURN_VALUE_OBJ
       /\ \A e \in 1..Len(heap.envs) :
              \A name \in DOMAIN heap.envs[e].store :
                  Bound(e, name).type # RETURN_VALUE_OBJ
       /\ \A a \in 1..Len(heap.arrs) :
              \A i \in 1..Len(heap.arrs[a]) :
                  heap.arrs[a][i].type # RETURN_VALUE_OBJ
       /\ result.v.type = ERROR_OBJ => result.v.Message \notin ReturnValueMessages

\* the sub-expressions of a node, in the order the evaluator evaluates them
RECURSIVE PairExpressions(_, _, _)
PairExpressions(node, its, i) ==
    IF i > Len(its) THEN <<>>
    ELSE <<node.Pairs[its[i]][1], node.Pairs[its[i]][2]>>
         \o PairExpressions(node, its, i + 1)

SubExpressions(node, h) ==
    CASE node.kind = "PrefixExpression" -> <<node.Right>>
      [] node.kind = "InfixExpression" -> <<node.Left, node.Right>>
      [] node.kind = "CallExpression" -> <<node.Function>> \o node.Arguments
      [] node.kind = "ArrayLiteral" -> node.Elements
      [] node.kind = "HashLiteral" ->
            PairExpressions(node, MapIteration(Len(node.Pairs), h), 1)
      [] node.kind = "IndexExpression" -> <<node.Left, node.Index>>
      [] node.kind = "LetStatement" -> <<node.Value>>
      [] node.kind = "ReturnStatement" -> <<node.ReturnValue>>
      [] node.kind = "IfExpression" -> <<node.Condition>>
      [] OTHER -> <<>>

\* the first Error that the sub-expressions, evaluated one after the other
\* from sub-expression i, produce; NilObj when none does
RECURSIVE FirstError(_, _, _)
FirstError(nodes, i, h) ==
    IF i > Len(nodes) THEN NilObj
    ELSE LET r == Eval(nodes[i], 1, h, 2)
         IN  IF Aborted(r) THEN NilObj
             ELSE IF isError(r.v) THEN r.v
             ELSE FirstError(nodes, i + 1, r.h)

\* the node whose sub-expressions a statement evaluates
Encloser(stmt) ==
    IF stmt.kind = "ExpressionStatement" THEN stmt.Expression ELSE stmt

\* C5: when the evaluation of a sub-expression produces an Error, the result
\* of the enclosing node is that very Error, the same allocation (here: the
\* Error of the first sub-expression that produces one).
ErrorIsHandedOn ==
    (Evaluated /\ Len(program.Statements) = 1)
    => LET node == Encloser(program.Statements[1])
           h0 == InitialHeap(heap.mapOrder)
           err == FirstError(SubExpressions(node, h0), 1, h0)
       IN  err # NilObj => Yields(err)

\* a value without the identities of the allocations in it
RECURSIVE Structure(_, _)
Structure(v, h) ==
    CASE v.type = ERROR_OBJ -> [type |-> ERROR_OBJ, Message |-> v.Message]
      [] v.type = RETURN_VALUE_OBJ ->
            [type |-> RETURN_VALUE_OBJ, val |-> Structure(v.val, h)]
      [] v.type = FUNCTION_OBJ ->
            [type |-> FUNCTION_OBJ, Parameters |-> v.Parameters, Body |-> v.Body]
      [] v.type = ARRAY_OBJ ->
            [type |-> ARRAY_OBJ,
             Shape |-> [i \in 1..v.Elements.len |->
                           Structure(SliceAt(h, v.Elements, i - 1), h)]]
      [] v.type = HASH_OBJ ->
            [type |-> HASH_OBJ,
             Shape |-> [k \in DOMAIN v.Pairs |->
                           [Key |-> Structure(v.Pairs[k].Key, h),
                            Value |-> Structure(v.Pairs[k].Value, h)]]]
      [] OTHER -> v

\* C6: two evaluations of one Program from equal environments give
\* structurally equal values, whatever order a map iteration takes.
Deterministic ==
    Evaluated
    => \A ord \in MapOrders :
           LET again == Eval(program, 1, InitialHeap(ord), 0)
           IN  /\ again.abort = result.abort
               /\ Structure(again.v, again.h) = Structure(result.v, heap)

\* the ladder of the binary operators
Ladder(op) ==
    CASE op \in {"==", "!="} -> 1
      [] op \in {"<", ">"} -> 2
      [] op \in {"+", "-"} -> 3
      [] op \in {"*", "/"} -> 4

SourceParsed == pc # "source"

\* C7: `x op1 y op2 z` parses to ((x op1 y) op2 z) when op1 is at least as high
\* on the ladder EQUALS < LESSGREATER < SUM < PRODUCT as op2, else to
\* (x op1 (y op2 z)); a prefix - or ! binds tighter than every binary operator.
PrecedenceParsing ==
    /\ \A op1, op2 \in BinaryOps :
           (SourceParsed /\ input = PrecedenceSource(op1, op2))
           => /\ errors = <<>>
              /\ StringOf(program) =
                    IF Ladder(op1) >= Ladder(op2)
                    THEN "((x " \o op1 \o " y) " \o op2 \o " z)"
                    ELSE "(x " \o op1 \o " (y " \o op2 \o " z))"
    /\ \A pre \in {"-", "!"}, op \in BinaryOps :
           (SourceParsed /\ input = PrefixSource(pre, op))
           => /\ errors = <<>>
              /\ StringOf(program) = "((" \o pre \o "a) " \o op \o " b)"

\* x == y * z has been parsed: the later operator is the higher one
HigherOperatorParsedSecond ==
    /\ pc = "parsed"
    /\ input = PrecedenceSource("==", "*")
    /\ Len(program.Statements) = 1

\* the pairs a hash literal of the source text must evaluate to
ExpectedPairs(case) ==
    [hk \in {HashKey(case[i].key) : i \in 1..Len(case)} |->
        LET i == CHOOSE j \in 1..Len(case) : HashKey(case[j].key) = hk
        IN  [Key |-> case[i].key, Value |-> Integer(case[i].n)]]

\* C8: a hash literal { k1: v1, ..., kn: vn } with hashable keys parses without
\* a parser error and evaluates to the Hash of exactly the pairs
\* HashKey(ki) -> vi.
HashLiteralParsesAndEvaluates ==
    \A case \in HashCases :
        (SourceParsed /\ input = HashSource(case))
        => /\ errors = <<>>
           /\ Evaluated => /\ result.abort = ""
                           /\ result.v.type = HASH_OBJ
                           /\ result.v.Pairs = ExpectedPairs(case)

\* C9: a let or return statement that a token other than `;` follows (EOF and
\* } too) is parsed, and nothing is added to the parser's errors.
SemicolonIsOptional ==
    (SourceParsed /\ input \in NoSemicolonSources)
    => /\ errors = <<>>
       /\ program.Statements # <<>>

\* C10: a let statement without its name, or without = after it, records an
\* error and gives no statement: the error list is not empty and no entry of
\* Program.Statements is a Let statement, not even a nil one.
FailedLetGivesNoStatement ==
    (SourceParsed /\ input \in BadLetSources)
    => /\ errors # <<>>
       /\ \A i \in 1..Len(program.Statements) :
              program.Statements[i].kind # "LetStatement"

\* C11: ParseProgram comes to an end, without aborting, on every finite token
\* sequence: no loop of the parser repeats an iteration at the same position,
\* the result is a Program, the parser has stopped at EOF, and malformed input
\* has done no more than add messages to the error list.
ParseProgramTerminates ==
    /\ pc # "hung"
    /\ SourceParsed
       => /\ program.kind = "Program"
          /\ \A i \in 1..Len(errors) : errors[i] \in STRING
          /\ LET p == ParseProgram(New(input)).p
             IN  /\ ~p.hung
                 /\ curTokenIs(p, "EOF")
                 /\ p.pos > Len(input)
                 /\ p.errors = errors

\* C11 witness: input that ends inside a block, after `let`, has been parsed
\* and has left errors.
UnfinishedBlockParsed ==
    /\ pc = "parsed"
    /\ input = <<KwIf, Sym("("), Word("x"), Sym(")"), Sym("{"), KwLet>>
    /\ errors # <<>>

\* the Integers of the elements of an Array
Ints(arr) == [i \in 1..arr.Elements.len |-> SliceAt(heap, arr.Elements, i - 1).int]

\* C12: push returns a new Array and changes no Array that exists: after
\* let a = [1, ..., n]; let b = push(a, 8); let c = push(a, 9) the Array a is
\* still [1, ..., n], b is a with 8 at its end and c is a with 9 at its end.
PushChangesNoArray ==
    \A n \in 0..MaxElems :
        (Evaluated /\ program = PushProgram(n))
        => /\ result.abort = ""
           /\ Bound(1, "b").id # Bound(1, "a").id
           /\ Bound(1, "c").id # Bound(1, "a").id
           /\ Ints(Bound(1, "a")) = [i \in 1..n |-> i]
           /\ Ints(Bound(1, "b")) = [i \in 1..n |-> i] \o <<8>>
           /\ Ints(Bound(1, "c")) = [i \in 1..n |-> i] \o <<9>>
           /\ Yields(Bound(1, "b"))

\* C13: tail of an Array of two or more elements is an Array of all but the
\* first, tail of the empty Array is an empty Array, and tail of an Array of
\* the one element x is an Array of the one element x.
TailOfArray ==
    \A n \in 0..MaxElems :
        (Evaluated /\ program = TailProgram(n))
        => /\ result.abort = ""
           /\ result.v.type = ARRAY_OBJ
           /\ Ints(result.v) = CASE n = 0 -> <<>>
                                 [] n = 1 -> <<1>>
                                 [] OTHER -> [i \in 1..(n - 1) |-> i + 1]

\* C14: every builtin called with one argument of a type it does not support
\* returns the Error "argument to `<name>` not supported, got <TYPE>" with the
\* name of the builtin that was called, len, head, tail, last and push alike.
UnsupportedArgumentNamesBuiltin ==
    \A name \in builtins :
        \A a \in Unsupported(name) :
            (Evaluated /\ program = BuiltinProgram(name, a[1]))
            => YieldsError("argument to '" \o name \o "' not supported, got " \o a[2])

\* C15: an identifier is looked up in the environment first and among the
\* builtins only on a miss: a name bound to 5 by a let or as a parameter yields
\* Integer 5, also when it is the name of a builtin (`let len = 5; len`).
EnvironmentBeforeBuiltins ==
    \A name \in BoundNames, par \in BOOLEAN :
        (Evaluated /\ program = ShadowProgram(name, par))
        => Yields(Integer(5))

\* C16: a call of a function of k parameters with n > k arguments ignores the
\* extra arguments: the first k are bound, the body is evaluated (it yields
\* the k-th argument, or 7 when k = 0) and the evaluation does not abort.
ExtraArgumentsIgnored ==
    \A a \in Arities :
        (Evaluated /\ program = ArityProgram(a[1], a[2], a[3]) /\ a[2] > a[1])
        => /\ result.abort = ""
           /\ Yields(Integer(IF a[1] = 0 THEN 7 ELSE 10 + a[1]))

\* C17: a call of a function of k parameters with n < k arguments leaves the
\* k-th parameter unbound, and its use in the body yields the Error
\* identifier not found: <param>, also when a binding of that name exists
\* outside the function.
MissingArgumentNotFound ==
    \A a \in Arities :
        (Evaluated /\ program = ArityProgram(a[1], a[2], a[3]) /\ a[2] < a[1])
        => YieldsError("identifier not found: " \o Param(a[1]))

\* C18: integer division by zero never aborts the evaluation: a / 0 with an
\* Integer a returns an Error.
DivisionByZeroIsError ==
    \A a \in ClosureInts :
        (Evaluated /\ program = DivisionProgram(a))
        => /\ result.abort = ""
           /\ result.v.type = ERROR_OBJ

\* C19: the index i into an Array of n elements yields the element at
\* position i when 0 <= i <= n - 1 and NULL otherwise: a negative index and
\* an index of n or more (any index, for the empty Array) yield NULL, and the
\* evaluation neither wraps around nor aborts.
ArrayIndexInRangeOrNull ==
    \A n \in 0..MaxElems, i \in Indices :
        (Evaluated /\ program = IndexProgram(n, i))
        => /\ result.abort = ""
           /\ Yields(IF 0 <= i /\ i <= n - 1 THEN Integer(i + 1) ELSE NULL)

\* C19 witness: the index -1 into an Array of three elements has yielded NULL.
NegativeIndexYieldedNull ==
    /\ Evaluated
    /\ program = IndexProgram(3, -1)
    /\ Yields(NULL)

\* C20: a decimal literal of a value in the range of the integers parses to
\* an IntegerLiteral of exactly that value without an error; the error
\* could not parse <literal> as integer is recorded only beyond that range.
LiteralInRangeParses ==
    \A v \in LiteralValues :
        (SourceParsed /\ input = <<Num(v)>>)
        => IF v <= MaxInt
           THEN /\ errors = <<>>
                /\ program.Statements = <<Stmt(IntLit(v))>>
           ELSE errors = <<"could not parse " \o ToString(v) \o " as integer">>

\* C21: two hashable values u and v (Integer, Boolean, String) for which
\* u == v evaluates to TRUE have equal HashKeys: two Integers of one number
\* and two uses of one Boolean do.
HashKeyLaw ==
    \A u, v \in HashableExpressions :
        (Evaluated /\ program = EqualProgram(u, v) /\ Yields(TrueObj))
        => /\ Hashable(Bound(1, "u")) /\ Hashable(Bound(1, "v"))
           /\ HashKey(Bound(1, "u")) = HashKey(Bound(1, "v"))

\* C21 witness: MaxInt + 1 and -MaxInt - 1, two Integers of one number from
\* two computations, have compared equal.
WrappedIntegersEqual ==
    /\ Evaluated
    /\ program = EqualProgram(InfixExpression(IntLit(MaxInt), "+", IntLit(1)),
                              InfixExpression(Signed(-MaxInt), "-", IntLit(1)))
    /\ Yields(TrueObj)
    /\ Bound(1, "u") = Integer(MinInt)

\* C22: truthiness is the same in if and in !: for a value v of any variant,
\* if (v) takes its consequence exactly when v is neither FALSE nor NULL (the
\* Integer 0, the empty String and the empty Array are truthy), !v is TRUE
\* exactly for those two and FALSE otherwise, and an if with a falsy condition
\* and no alternative yields NULL.
TruthinessAgrees ==
    \A e \in TruthExpressions, form \in TruthForms :
        (Evaluated /\ program = TruthProgram(e[1], form))
        => LET truthy == Bound(1, "v") \notin {FalseObj, NULL}
           IN  /\ truthy = e[2]
               /\ form = "ifelse" => Yields(Integer(IF truthy THEN 10 ELSE 20))
               /\ form = "if" => Yields(IF truthy THEN Integer(10) ELSE NULL)
               /\ form = "bang" => Yields(IF truthy THEN FalseObj ELSE TrueObj)

\* C22 witness: with v the Integer 0, if (v) { 10 } else { 20 } has taken its
\* consequence.
ZeroTookConsequence ==
    /\ Evaluated
    /\ program = TruthProgram(IntLit(0), "ifelse")
    /\ Bound(1, "v") = Integer(0)
    /\ Yields(Integer(10))

\* C23: the result of Eval on the tree of an error-free parse is a value of
\* one of the variants, never an absent result, also for the empty program,
\* an if whose taken block is empty and a call of a function of empty body;
\* such a result is used as an operand without an abort.
ResultIsNeverAbsent ==
    (Evaluated /\ input \in EmptySources /\ errors = <<>>
               /\ program = ParseProgram(New(input)).node)
    => /\ result.abort = ""
       /\ result.v # NilObj

\* C24: for every infix operator, == and != too, two operands of different
\* types give the Error type mismatch: <L> <op> <R>; two operands of one type
\* other than Integer and String give unknown operator: <L> <op> <R> for
\* every operator other than == and !=.
TypeMismatchForEveryOperator ==
    \A l, r \in TypedExpressions, op \in BinaryOps :
        (Evaluated /\ program = InfixProgram(l[1], op, r[1]))
        => /\ l[2] # r[2]
              => YieldsError("type mismatch: " \o l[2] \o " " \o op \o " " \o r[2])
           /\ (l[2] = r[2] /\ l[2] \notin {INTEGER_OBJ, STRING_OBJ}
                           /\ op \notin {"==", "!="})
              => YieldsError("unknown operator: " \o l[2] \o " " \o op \o " " \o r[2])

\* C24 witness: 5 == true has given a type mismatch.
EqualsGaveTypeMismatch ==
    /\ Evaluated
    /\ program = InfixProgram(IntLit(5), "==", BooleanExpression(TRUE))
    /\ YieldsError("type mismatch: INTEGER == BOOLEAN")

\* C25: in a Program and in a Block, once a statement has evaluated to an
\* Error or a ReturnValue no later statement of the sequence is evaluated: no
\* environment holds a binding of a later let, and the result is that Error
\* or, at the level of the program, what that ReturnValue wraps.
SequenceStopsEarly ==
    \A st \in Stoppers, form \in StopForms :
        (Evaluated /\ program = StopProgram(st[1], form))
        => /\ result.abort = ""
           /\ Bound(1, "a") = Integer(1)
           /\ \A e \in 1..Len(heap.envs) :
                  DOMAIN heap.envs[e].store \subseteq {"a", "f"}
           /\ IF st[2] THEN YieldsError(st[3]) ELSE Yields(Integer(7))

\* C25 witness: an Error in the block of an if has ended the block and the
\* program.
ErrorEndedBlock ==
    /\ Evaluated
    /\ program = StopProgram(Stmt(Var("foobar")), "block")
    /\ YieldsError("identifier not found: foobar")
    /\ DOMAIN heap.envs[1].store = {"a"}

\* C26: after a sub-expression that gives an Error nothing more is evaluated:
\* the right operand of an infix expression whose left operand errs, and the
\* elements and arguments after the first erring one, bind nothing and cannot
\* fail, and the result is that Error.
NothingEvaluatedAfterError ==
    \A e \in Followers, form \in AfterErrorForms :
        (Evaluated /\ program = AfterErrorProgram(e, form))
        => /\ result.abort = ""
           /\ YieldsError("identifier not found: foobar")
           /\ DOMAIN heap.envs[1].store = {}

\* C27: the scope of a call that has returned is frozen: the later calls
\* g(9) and g(10) of the closure that captured the scope of f(5) leave the
\* names bound in that scope (environment 2) and their values as they were
\* when f(5) returned.
ScopeFrozenAfterReturn ==
    \A k \in 0..MaxElems, body \in ClosureBodies :
        (Evaluated /\ program = FrozenProgram(k, body))
        => LET returned == Eval(Program(CapturingCall(k, body)), 1,
                                InitialHeap(heap.mapOrder), 0).h
               before == returned.envs[2].store
               after == heap.envs[2].store
           IN  /\ result.abort = ""
               /\ DOMAIN after = DOMAIN before
               /\ \A name \in DOMAIN before :
                      /\ after[name] = before[name]
                      /\ Structure(after[name], heap) = Structure(before[name], returned)

\* C28: the evaluation of every program comes to an end, at a depth of
\* recursion that the tree bounds, also when a function bound by a let of the
\* program calls itself: the stack never runs out.
EvaluationTerminates ==
    (Evaluated /\ program \in RecursivePrograms)
    => /\ result.abort = ""
       /\ result.v # NilObj

\* C29: Set writes into the scope it is called on and nowhere else: binding
\* the parameter x and the let of x in the body of f change neither the x of
\* the scope that defines f (environment 1) nor the x of the caller h
\* (environment 2), and Get from the scope of f (environment 3) gives the value
\* bound last there.
SetWritesOwnScopeOnly ==
    \A gx, cx, px \in ScopeInts :
        (Evaluated /\ program = ScopesProgram(gx, cx, px))
        => /\ Bound(1, "x") = Integer(gx)
           /\ Bound(2, "x") = Integer(cx)
           /\ Bound(3, "x") = Integer(px + 10)
           /\ heap.envs[2].outer = 1 /\ heap.envs[3].outer = 1
           /\ Get(heap, 3, "x") = [val |-> Integer(px + 10), ok |-> TRUE]
           /\ Get(heap, 2, "x") = [val |-> Integer(cx), ok |-> TRUE]
           /\ Bound(1, "r") = Integer(px + 10 + cx)
           /\ Yields(Integer(gx + px + 10 + cx))

\* C29 witness: f was called with 5 from a caller whose x is 20, under a
\* global x of 1, and the program has yielded 36.
InnerLetLeftOuterScopes ==
    /\ Evaluated
    /\ program = ScopesProgram(1, 20, 5)
    /\ Bound(3, "x") = Integer(15)
    /\ Yields(Integer(36))

\* C30: an Array indexed with a value that is no Integer (a Boolean, String,
\* Null, Array, Hash, Function or Builtin) yields NULL or an Error, and the
\* evaluation does not abort.
NonIntegerIndexIsSafe ==
    \A e \in NonIntegers :
        (Evaluated /\ program = IndexedBy(e))
        => /\ result.abort = ""
           /\ (result.v = NULL \/ result.v.type = ERROR_OBJ)

============================================================================
